---------------------------- MODULE Spec2Model ----------------------------
(***************************************************************************)
(* Model of k8s/deepwiki-analyzer/mock-deepwiki.py: the command line       *)
(* (main) and the report pipeline of MockDeepWikiAnalyzer (scanner, issue  *)
(* generator, severity sampler, score calculator, recommendation engine,   *)
(* report assembler).                                                      *)
(*                                                                         *)
(* Conventions.  Python's 0-based sys.argv[k] is argv[k+1].  Probabilities *)
(* and the draws of random.random() are in thousandths (0.04 is 40).       *)
(* Scores are kept in halves of a point (100 is 200) so that the           *)
(* deductions 1.5 and 0.5 per issue are integers.  CVSS scores and the     *)
(* offsets of random.uniform(1, 3) are in tenths.  Text that the code      *)
(* slices, strips or matches is a sequence of one-character strings.       *)
(***************************************************************************)
EXTENDS Integers, Sequences, FiniteSets, TLC

VARIABLES
    self,            \* the analyzer instance: the attributes __init__ sets
    argv,            \* sys.argv
    seed,            \* state of the random module: fixes every draw
    vcs,             \* state of the version-control tool for the path
    pc,              \* control location of main / analyze
    stdout,          \* lines printed so far
    exit_code,       \* process exit status, NoExit while running
    repo_path,       \* main: repo_path
    output_format,   \* main: output_format
    file_stats,      \* analyze: file_stats
    issues,          \* analyze: issues
    report,          \* analyze: the report dict, key by key as it is built
    result,          \* main: result of analyzer.analyze(...)
    calls            \* components invoked so far, in order

vars == <<self, argv, seed, vcs, pc, stdout, exit_code, repo_path,
          output_format, file_stats, issues, report, result, calls>>

NoExit == 0 - 1
None == [none |-> TRUE]

(***************************************************************************)
(* Bounds of the model.                                                    *)
(***************************************************************************)
\* longest run of leading CRITICAL draws a stream of draws starts with
MaxCritRun == 7
\* number of rotations of the random.choice streams
MaxRot == 1
\* largest per-category count of the issue sequences handed to the
\* score calculator and recommendation engine on their own
MaxSec == 25
MaxPerf == 16
MaxMaint == 41

\* the largest Security and Maintainability counts of the small mixed inputs
MaxMixed == 3

\* the number of generated source files in a fixture's first directory
MaxBulk == 100

\* the largest draw of random.random() applied to the sampler, in thousandths
MaxDraw == 999

(***************************************************************************)
(* Generic helpers.                                                        *)
(***************************************************************************)
Min(a, b) == IF a <= b THEN a ELSE b
Max(a, b) == IF a >= b THEN a ELSE b

\* len([i for i in issues if P(i)])
CountIf(s, P(_)) == Cardinality({k \in 1..Len(s) : P(s[k])})

Range(s) == {s[k] : k \in 1..Len(s)}

\* random.randint(a, b): every integer of a..b
RandInt(a, b) == a..b

(***************************************************************************)
(* The file system seen by the scanner.  A tree maps a directory id to the *)
(* directory's sub-directories (name and id) and file names, in the order  *)
(* os.scandir lists them.                                                  *)
(***************************************************************************)
F_package_json == <<"p", "a", "c", "k", "a", "g", "e", ".", "j", "s", "o", "n">>
F_README_md == <<"R", "E", "A", "D", "M", "E", ".", "m", "d">>
F_gitignore == <<".", "g", "i", "t", "i", "g", "n", "o", "r", "e">>
F_app_ts == <<"a", "p", "p", ".", "t", "s">>
F_index_tsx == <<"i", "n", "d", "e", "x", ".", "t", "s", "x">>
F_util_js == <<"u", "t", "i", "l", ".", "j", "s">>
F_view_jsx == <<"v", "i", "e", "w", ".", "j", "s", "x">>
F_tool_py == <<"t", "o", "o", "l", ".", "p", "y">>
F_ci_yml == <<"c", "i", ".", "y", "m", "l">>
F_conf_yaml == <<"c", "o", "n", "f", ".", "y", "a", "m", "l">>
F_Makefile == <<"M", "a", "k", "e", "f", "i", "l", "e">>
F_HEAD == <<"H", "E", "A", "D">>
F_lib_js == <<"l", "i", "b", ".", "j", "s">>
F_out_js == <<"o", "u", "t", ".", "j", "s">>
F_guide_md == <<"g", "u", "i", "d", "e", ".", "m", "d">>
F_todo_md == <<"t", "o", "d", "o", ".", "m", "d">>
F_archive_tar_gz == <<"a", "r", "c", "h", "i", "v", "e", ".", "t", "a", "r", ".", "g", "z">>
F_trailing_dot == <<"n", "o", "t", "e", "s", ".">>

RepoTree ==
    [d \in {"root", "git", "src", "build", "node_modules", "dist"} |->
        CASE d = "root" ->
               [dirs  |-> << <<".git", "git">>, <<"src", "src">>,
                             <<"node_modules", "node_modules">> >>,
                files |-> <<F_package_json, F_README_md, F_gitignore,
                            F_ci_yml, F_Makefile>>]
          [] d = "git" ->
               [dirs |-> <<>>, files |-> <<F_HEAD, F_conf_yaml>>]
          [] d = "src" ->
               [dirs  |-> << <<"build", "build">> >>,
                files |-> <<F_app_ts, F_index_tsx, F_util_js, F_view_jsx,
                            F_tool_py, F_archive_tar_gz, F_trailing_dot>>]
          [] d = "build" ->
               [dirs |-> <<>>, files |-> <<F_out_js>>]
          [] d = "node_modules" ->
               [dirs  |-> << <<"dist", "dist">> >>,
                files |-> <<F_lib_js, F_package_json>>]
          [] OTHER ->
               [dirs |-> <<>>, files |-> <<F_lib_js>>]]

DocsTree ==
    [d \in {"root", "notes"} |->
        IF d = "root"
        THEN [dirs  |-> << <<"notes", "notes">> >>,
              files |-> <<F_README_md, F_guide_md>>]
        ELSE [dirs |-> <<>>, files |-> <<F_todo_md>>]]

EmptyTree == [d \in {"root"} |-> [dirs |-> <<>>, files |-> <<>>]]

\* the paths given on the command line
Paths == {"/srv/repo", "/srv/docs", "/nonexistent", "/root/private", "/srv/deep"}

\* fixture trees: a root with the files of a small project, a chain of
\* three nested directories root/n1/n2/n3 with the given names, a docs
\* directory beside n1, and bulk generated sources m001.ts .. in n1
DirNames == {"src", ".git", "node_modules", "dist", "build", ".github"}

BulkSizes == {0, MaxBulk}

Fixtures == DirNames \X DirNames \X DirNames \X BulkSizes

\* the path a fixture is found at
FixturePath(f) ==
    "/fixtures/" \o f[1] \o "," \o f[2] \o "," \o f[3]
        \o (IF f[4] = 0 THEN "" ELSE ",bulk")

FixturePaths == {FixturePath(f) : f \in Fixtures}

FixtureOf(path) == CHOOSE f \in Fixtures : FixturePath(f) = path

DigitChar(d) == <<"0", "1", "2", "3", "4", "5", "6", "7", "8", "9">>[d + 1]

\* m001.ts, m002.ts, ...
GenFile(k) ==
    <<"m", DigitChar(k \div 100), DigitChar((k \div 10) % 10),
      DigitChar(k % 10), ".", "t", "s">>

FixtureTree(f) ==
    [d \in {"root", "d1", "d2", "d3", "docs"} |->
        CASE d = "root" ->
               [dirs  |-> << <<f[1], "d1">>, <<"docs", "docs">> >>,
                files |-> <<F_package_json, F_README_md, F_app_ts>>]
          [] d = "d1" ->
               [dirs  |-> << <<f[2], "d2">> >>,
                files |-> <<F_util_js, F_view_jsx>>
                          \o [k \in 1..f[4] |-> GenFile(k)]]
          [] d = "d2" ->
               [dirs  |-> << <<f[3], "d3">> >>,
                files |-> <<F_tool_py, F_Makefile>>]
          [] d = "d3" ->
               [dirs |-> <<>>, files |-> <<F_lib_js, F_conf_yaml>>]
          [] OTHER ->
               [dirs |-> <<>>, files |-> <<F_guide_md, F_ci_yml>>]]

\* what os.walk meets at the path:
\*   dir         a readable directory
\*   missing     no such path: os.scandir raises FileNotFoundError
\*   unreadable  a directory without read permission: PermissionError
\*   walk_raises the iteration raises an exception that is not an OSError
\*               (RecursionError of a recursive os.walk on a deeply nested
\*               tree, KeyboardInterrupt)
FsKind(path) ==
    CASE path = "/srv/repo" -> "dir"
      [] path = "/srv/docs" -> "dir"
      [] path = "/nonexistent" -> "missing"
      [] path = "/root/private" -> "unreadable"
      [] path \in FixturePaths -> "dir"
      [] OTHER -> "walk_raises"

FsTree(path) ==
    CASE path = "/srv/repo" -> RepoTree
      [] path = "/srv/docs" -> DocsTree
      [] path \in FixturePaths -> FixtureTree(FixtureOf(path))
      [] OTHER -> EmptyTree

(***************************************************************************)
(* Repository Scanner: _analyze_files.                                     *)
(***************************************************************************)
\* pathlib's PurePath.suffix: the name from its last dot on, unless that
\* dot is the first or the last character
LastDot(name) ==
    LET dots == {k \in 1..Len(name) : name[k] = "."}
    IN  IF dots = {} THEN 0 ELSE CHOOSE k \in dots : \A j \in dots : j <= k

Suffix(name) ==
    LET k == LastDot(name)
    IN  IF 1 < k /\ k < Len(name) THEN SubSeq(name, k, Len(name)) ELSE <<>>

\* extensions = {...}
extensions ==
    << <<(<<".", "t", "s">>), "TypeScript">>,
       <<(<<".", "j", "s">>), "JavaScript">>,
       <<(<<".", "t", "s", "x">>), "TypeScript">>,
       <<(<<".", "j", "s", "x">>), "JavaScript">>,
       <<(<<".", "p", "y">>), "Python">>,
       <<(<<".", "j", "a", "v", "a">>), "Java">>,
       <<(<<".", "g", "o">>), "Go">>,
       <<(<<".", "r", "s">>), "Rust">>,
       <<(<<".", "j", "s", "o", "n">>), "JSON">>,
       <<(<<".", "y", "a", "m", "l">>), "YAML">>,
       <<(<<".", "y", "m", "l">>), "YAML">> >>

InExtensions(ext) == \E k \in 1..Len(extensions) : extensions[k][1] = ext

ExtensionLang(ext) ==
    extensions[CHOOSE k \in 1..Len(extensions) : extensions[k][1] = ext][2]

\* the directories the walk does not descend into
SkipDirs == {".git", "node_modules", "dist", "build"}

\* dict.get(key, 0)
DictGet(d, key) == IF key \in DOMAIN d THEN d[key] ELSE 0

\* d[key] = value, on a dict held as a function
DictSet(d, key, value) ==
    [k \in DOMAIN d \cup {key} |-> IF k = key THEN value ELSE d[k]]

EmptyDict == [k \in {} |-> 0]

\* mutant: a file is counted only when its extension is in the table
CountFileClassifiedOnly(acc, file) ==
    LET ext == Suffix(file)
    IN  IF InExtensions(ext)
        THEN [acc EXCEPT
                 !.file_count = @ + 1,
                 !.language_stats =
                     DictSet(@, ExtensionLang(ext),
                             DictGet(@, ExtensionLang(ext)) + 1)]
        ELSE acc

\* the loop body for one file (lines 163-167)
CountFile(acc, file) ==
    LET ext == Suffix(file)
    IN  [acc EXCEPT
            !.file_count = @ + 1,
            !.language_stats =
                IF InExtensions(ext)
                THEN DictSet(@, ExtensionLang(ext),
                             DictGet(@, ExtensionLang(ext)) + 1)
                ELSE @]

\* what the loop body adds for one file, counted from nothing
FileDelta(file) ==
    CountFile([file_count |-> 0, language_stats |-> EmptyDict], file)

\* the loop over the files of one directory, folded: each file adds its
\* own 1 to file_count and to at most one language, whatever the order,
\* so the counts after the loop are the sums of what the files add
CountFiles(acc, files) ==
    LET stats == acc.language_stats
        langs == UNION {DOMAIN FileDelta(files[k]).language_stats :
                           k \in 1..Len(files)}
        added(l) ==
            Cardinality({k \in 1..Len(files) :
                            l \in DOMAIN FileDelta(files[k]).language_stats})
        files_added ==
            Cardinality({k \in 1..Len(files) :
                            FileDelta(files[k]).file_count = 1})
    IN  [acc EXCEPT
            !.file_count = @ + files_added,
            !.language_stats =
                [l \in DOMAIN stats \cup langs |-> DictGet(stats, l) + added(l)]]

\* mutant: build is missing from the list of skipped directories
PruneDirsWithoutBuild(dirs) ==
    SelectSeq(dirs, LAMBDA d : d[1] \notin {".git", "node_modules", "dist"})

\* dirs[:] = [d for d in dirs if d not in [...]]
PruneDirs(dirs) == SelectSeq(dirs, LAMBDA d : d[1] \notin SkipDirs)

\* os.walk(top) top-down with the loop body: a directory is listed, the
\* body prunes its dirs in place and counts its files, and the walk then
\* descends into the dirs that are left, in order
RECURSIVE WalkDir(_, _, _)
RECURSIVE WalkDirs(_, _, _)
WalkDir(tree, d, acc) ==
    LET kept    == PruneDirs(tree[d].dirs)
        counted == CountFiles([acc EXCEPT !.visited = Append(@, d)],
                              tree[d].files)
    IN  WalkDirs(tree, kept, counted)

WalkDirs(tree, dirs, acc) ==
    IF dirs = <<>> THEN acc
    ELSE WalkDirs(tree, Tail(dirs), WalkDir(tree, Head(dirs)[2], acc))

WalkStart == [file_count |-> 0, language_stats |-> EmptyDict, visited |-> <<>>]

\* the try block: os.walk ignores the OSError of os.scandir (onerror is
\* None), so a missing or unreadable top yields no directory at all
WalkTop(path) ==
    IF FsKind(path) = "dir" THEN WalkDir(FsTree(path), "root", WalkStart)
    ELSE WalkStart

\* the language_stats of the except block
FallbackLanguageStats ==
    [l \in {"TypeScript", "JavaScript", "JSON", "Other"} |->
        CASE l = "TypeScript" -> 65
          [] l = "JavaScript" -> 20
          [] l = "JSON" -> 10
          [] OTHER -> 5]

FallbackFilesMin == 800
FallbackFilesMax == 1500

\* sum(language_stats.values())
RECURSIVE DictSum(_)
DictSum(d) ==
    IF DOMAIN d = {} THEN 0
    ELSE LET k == CHOOSE x \in DOMAIN d : TRUE
         IN  d[k] + DictSum([x \in DOMAIN d \ {k} |-> d[x]])

\* mutant: round(v * 100 / total) in place of int(...)
PercentagesRounded(language_stats) ==
    LET sum   == DictSum(language_stats)
        total == IF sum = 0 THEN 1 ELSE sum
    IN  [k \in DOMAIN language_stats |->
            (language_stats[k] * 200 + total) \div (2 * total)]

\* int(v * 100 / total): v * 100 / total is the double nearest the exact
\* quotient; a quotient that is no integer is at least 1/total away from
\* one, far more than the rounding error, so truncation gives the floor
Percentages(language_stats) ==
    LET sum   == DictSum(language_stats)
        total == IF sum = 0 THEN 1 ELSE sum
    IN  [k \in DOMAIN language_stats |-> (language_stats[k] * 100) \div total]

\* _analyze_files, given the outcome of the try block: the walk's counts
\* when it ends normally, the except block's when it raises (file_count
\* is then the draw of random.randint(800, 1500))
AnalyzeFiles(path, fallback_count) ==
    LET walked == WalkTop(path)
        raised == FsKind(path) = "walk_raises"
    IN  [total_files |-> IF raised THEN fallback_count ELSE walked.file_count,
         languages   |-> Percentages(IF raised THEN FallbackLanguageStats
                                     ELSE walked.language_stats)]

(***************************************************************************)
(* Text.  A string the code searches is looked at character by character.  *)
(***************************************************************************)
\* the characters of the string literals of the source
Chars(s) ==
    CASE s = "Hardcoded API Keys in Repository" ->
           <<"H", "a", "r", "d", "c", "o", "d", "e", "d", " ", "A", "P",
             "I", " ", "K", "e", "y", "s", " ", "i", "n", " ", "R", "e",
             "p", "o", "s", "i", "t", "o", "r", "y">>
      [] s = "SQL Injection Vulnerability" ->
           <<"S", "Q", "L", " ", "I", "n", "j", "e", "c", "t", "i", "o",
             "n", " ", "V", "u", "l", "n", "e", "r", "a", "b", "i", "l",
             "i", "t", "y">>
      [] s = "Cross-Site Scripting (XSS) Vulnerability" ->
           <<"C", "r", "o", "s", "s", "-", "S", "i", "t", "e", " ", "S",
             "c", "r", "i", "p", "t", "i", "n", "g", " ", "(", "X", "S",
             "S", ")", " ", "V", "u", "l", "n", "e", "r", "a", "b", "i",
             "l", "i", "t", "y">>
      [] s = "Insecure Direct Object Reference" ->
           <<"I", "n", "s", "e", "c", "u", "r", "e", " ", "D", "i", "r",
             "e", "c", "t", " ", "O", "b", "j", "e", "c", "t", " ", "R",
             "e", "f", "e", "r", "e", "n", "c", "e">>
      [] s = "N+1 Query Problem Detected" ->
           <<"N", "+", "1", " ", "Q", "u", "e", "r", "y", " ", "P", "r",
             "o", "b", "l", "e", "m", " ", "D", "e", "t", "e", "c", "t",
             "e", "d">>
      [] s = "Large Bundle Size" ->
           <<"L", "a", "r", "g", "e", " ", "B", "u", "n", "d", "l", "e",
             " ", "S", "i", "z", "e">>
      [] s = "Inefficient Algorithm Complexity" ->
           <<"I", "n", "e", "f", "f", "i", "c", "i", "e", "n", "t", " ",
             "A", "l", "g", "o", "r", "i", "t", "h", "m", " ", "C", "o",
             "m", "p", "l", "e", "x", "i", "t", "y">>
      [] s = "High Cyclomatic Complexity" ->
           <<"H", "i", "g", "h", " ", "C", "y", "c", "l", "o", "m", "a",
             "t", "i", "c", " ", "C", "o", "m", "p", "l", "e", "x", "i",
             "t", "y">>
      [] s = "Code Duplication Detected" ->
           <<"C", "o", "d", "e", " ", "D", "u", "p", "l", "i", "c", "a",
             "t", "i", "o", "n", " ", "D", "e", "t", "e", "c", "t", "e",
             "d">>
      [] s = "Missing Type Annotations" ->
           <<"M", "i", "s", "s", "i", "n", "g", " ", "T", "y", "p", "e",
             " ", "A", "n", "n", "o", "t", "a", "t", "i", "o", "n", "s">>
      [] s = "api_key|api_secret|password|token" ->
           <<"a", "p", "i", "_", "k", "e", "y", "|", "a", "p", "i", "_",
             "s", "e", "c", "r", "e", "t", "|", "p", "a", "s", "s", "w",
             "o", "r", "d", "|", "t", "o", "k", "e", "n">>
      [] s = "SELECT.*FROM.*WHERE.*=" ->
           <<"S", "E", "L", "E", "C", "T", ".", "*", "F", "R", "O", "M",
             ".", "*", "W", "H", "E", "R", "E", ".", "*", "=">>
      [] s = "innerHTML|dangerouslySetInnerHTML" ->
           <<"i", "n", "n", "e", "r", "H", "T", "M", "L", "|", "d", "a",
             "n", "g", "e", "r", "o", "u", "s", "l", "y", "S", "e", "t",
             "I", "n", "n", "e", "r", "H", "T", "M", "L">>
      [] s = "req.params.id|userId.*params" ->
           <<"r", "e", "q", ".", "p", "a", "r", "a", "m", "s", ".", "i",
             "d", "|", "u", "s", "e", "r", "I", "d", ".", "*", "p", "a",
             "r", "a", "m", "s">>
      [] s = "api_key" ->
           <<"a", "p", "i", "_", "k", "e", "y">>
      [] s = "SELECT" ->
           <<"S", "E", "L", "E", "C", "T">>
      [] s = "innerHTML" ->
           <<"i", "n", "n", "e", "r", "H", "T", "M", "L">>
      [] s = "API Key" ->
           <<"A", "P", "I", " ", "K", "e", "y">>
      [] s = "SQL Injection" ->
           <<"S", "Q", "L", " ", "I", "n", "j", "e", "c", "t", "i", "o",
             "n">>
      [] s = "" ->
           <<>>

\* needle in hay
Contains(hay, needle) ==
    \E k \in 0..(Len(hay) - Len(needle)) :
        SubSeq(hay, k + 1, k + Len(needle)) = needle

(***************************************************************************)
(* __init__: the severity distribution and the template pools.             *)
(***************************************************************************)
\* self.severity_distribution, in insertion order, in thousandths
severity_distribution ==
    << <<"critical", 40>>, <<"high", 120>>, <<"medium", 340>>, <<"low", 500>> >>

SecurityTemplates ==
    << [title |-> "Hardcoded API Keys in Repository", cwe_id |-> "CWE-798",
        cwe_name |-> "Use of Hard-coded Credentials", cvss_score |-> 98,
        pattern |-> "api_key|api_secret|password|token"],
       [title |-> "SQL Injection Vulnerability", cwe_id |-> "CWE-89",
        cwe_name |-> "SQL Injection", cvss_score |-> 91,
        pattern |-> "SELECT.*FROM.*WHERE.*="],
       [title |-> "Cross-Site Scripting (XSS) Vulnerability", cwe_id |-> "CWE-79",
        cwe_name |-> "Cross-site Scripting", cvss_score |-> 75,
        pattern |-> "innerHTML|dangerouslySetInnerHTML"],
       [title |-> "Insecure Direct Object Reference", cwe_id |-> "CWE-639",
        cwe_name |-> "Authorization Bypass", cvss_score |-> 82,
        pattern |-> "req.params.id|userId.*params"] >>

PerformanceTemplates ==
    << [title |-> "N+1 Query Problem Detected",
        impact |-> "Causes 3+ second load times",
        pattern |-> "forEach.*await.*find"],
       [title |-> "Large Bundle Size",
        impact |-> "Slow initial page load",
        pattern |-> "import.*from.*lodash"],
       [title |-> "Inefficient Algorithm Complexity",
        impact |-> "O(n^2) complexity causing slowdowns",
        pattern |-> "for.*for.*array"] >>

MaintainabilityTemplates ==
    << [title |-> "High Cyclomatic Complexity", threshold |-> 15,
        pattern |-> "if.*if.*if.*if"],
       [title |-> "Code Duplication Detected", threshold |-> 50,
        pattern |-> "function.*similar"],
       [title |-> "Missing Type Annotations",
        impact |-> "Reduced type safety",
        pattern |-> ": any|: unknown"] >>

\* self.issue_templates
issue_templates ==
    [security |-> SecurityTemplates,
     performance |-> PerformanceTemplates,
     maintainability |-> MaintainabilityTemplates]

\* the attributes of a MockDeepWikiAnalyzer as __init__ leaves them
NewAnalyzer ==
    [severity_distribution |-> severity_distribution,
     issue_templates |-> issue_templates]

\* template.get(key, default)
TemplateGet(template, key, default) ==
    IF key \in DOMAIN template THEN template[key] ELSE default

(***************************************************************************)
(* The random module.  A stream of draws is fixed by a tape: the first     *)
(* ncrit draws of random.random() are 0.0, the later ones run through a    *)
(* pattern; random.choice and random.randint run through their ranges from *)
(* a rotation.                                                             *)
(***************************************************************************)
\* patterns of random.random() draws, in thousandths
SevPatterns ==
    << <<999>>, <<41, 161, 501>>, <<40, 160, 500, 0>> >>

Tapes ==
    [ncrit : 0..MaxCritRun, pat : 1..Len(SevPatterns), rot : 0..MaxRot]


\* the i-th draw (from 0) of random.random() in the security loop
RandomAt(tape, i) ==
    IF i < tape.ncrit THEN 0
    ELSE LET p == SevPatterns[tape.pat]
         IN  p[((i - tape.ncrit) % Len(p)) + 1]

\* the i-th random.choice(pool) of a loop
ChoiceAt(tape, i, pool) == pool[((i + tape.rot) % Len(pool)) + 1]

\* the i-th random.randint(a, b) of a loop
RandIntAt(tape, i, a, b) == a + ((7 * i + tape.rot) % (b - a + 1))

(***************************************************************************)
(* Severity Sampler: _get_random_severity.                                 *)
(***************************************************************************)
\* mutant: the test of the loop is rand < cumulative
RECURSIVE SeverityFromStrict(_, _, _)
SeverityFromStrict(rand, k, cumulative) ==
    IF k > Len(self.severity_distribution) THEN "low"
    ELSE LET c == cumulative + self.severity_distribution[k][2]
         IN  IF rand < c THEN self.severity_distribution[k][1]
             ELSE SeverityFromStrict(rand, k + 1, c)

\* the loop over severity_distribution.items() from entry k on, with
\* cumulative the sum so far; 'low' when the loop ends without a return
RECURSIVE SeverityFrom(_, _, _)
SeverityFrom(rand, k, cumulative) ==
    IF k > Len(self.severity_distribution) THEN "low"
    ELSE LET c == cumulative + self.severity_distribution[k][2]
         IN  IF rand <= c THEN self.severity_distribution[k][1]
             ELSE SeverityFrom(rand, k + 1, c)

GetRandomSeverity(rand) == SeverityFrom(rand, 1, 0)

\* mutant: the severity is stored as the sampler returns it
UpperOmitted(severity) == severity

\* str.upper() on the severity names
Upper(severity) ==
    CASE severity = "critical" -> "CRITICAL"
      [] severity = "high" -> "HIGH"
      [] severity = "medium" -> "MEDIUM"
      [] severity = "low" -> "LOW"

\* str.lower() on the severity names
Lower(severity) ==
    CASE severity = "CRITICAL" -> "critical"
      [] severity = "HIGH" -> "high"
      [] severity = "MEDIUM" -> "medium"
      [] severity = "LOW" -> "low"

(***************************************************************************)
(* Double-precision arithmetic of the category counts.                     *)
(***************************************************************************)
RECURSIVE Pow2(_)
Pow2(n) == IF n = 0 THEN 1 ELSE 2 * Pow2(n - 1)

Limb == Pow2(16)

\* 0.3 as a double is Mant03 * 2^-54 with the 53-bit mantissa
\* 0x13333333333333, held here in 16-bit limbs, lowest first
Mant03 == <<13107, 13107, 13107, 19>>

RECURSIVE BitLen(_)
BitLen(n) == IF n = 0 THEN 0 ELSE 1 + BitLen(n \div 2)

\* int(n * 0.3) for 0 <= n < 2^15: the exact product n * Mant03 is rounded
\* to 53 significant bits, ties to even (the IEEE 754 multiplication), and
\* int() drops the fraction, the 54 bits below the binary point
IntTimes03(n) ==
    LET p0 == n * Mant03[1]
        p1 == n * Mant03[2] + (p0 \div Limb)
        p2 == n * Mant03[3] + (p1 \div Limb)
        l0 == p0 % Limb
        l1 == p1 % Limb
        l2 == p2 % Limb
        l3 == n * Mant03[4] + (p2 \div Limb)
        \* bits of the product beyond 53: the ones the rounding drops
        shift == BitLen(l3) + 48 - 53
        rem   == l0 % Pow2(shift)
        q0    == l0 \div Pow2(shift)
        up    == \/ 2 * rem > Pow2(shift)
                 \/ 2 * rem = Pow2(shift) /\ q0 % 2 = 1
        \* rounding up carries into the integer part only when every kept
        \* bit below the binary point is 1
        carry == /\ up
                 /\ q0 = Pow2(16 - shift) - 1
                 /\ l1 = Limb - 1
                 /\ l2 = Limb - 1
                 /\ l3 % 64 = 63
    IN  IF shift <= 0 THEN l3 \div 64
        ELSE (l3 \div 64) + (IF carry THEN 1 ELSE 0)

\* int(n * 0.25): 0.25 is 2^-2, the product is exact
IntTimes025(n) == n \div 4

(***************************************************************************)
(* Issue Generator: _generate_issues and its helpers.                      *)
(***************************************************************************)
TotalIssuesMin == 200
TotalIssuesMax == 350

\* mutant: f'{n}', without the padding
Format03dUnpadded(n) ==
    IF n < 10 THEN <<n>>
    ELSE IF n < 100 THEN <<n \div 10, n % 10>>
    ELSE <<n \div 100, (n \div 10) % 10, n % 10>>

\* f'{n:03d}': the decimal digits of n, padded with zeros to 3 digits
RECURSIVE Digits(_)
Digits(n) == IF n < 10 THEN <<n>> ELSE Append(Digits(n \div 10), n % 10)

Format03d(n) ==
    LET d == Digits(n)
    IN  IF Len(d) >= 3 THEN d ELSE [k \in 1..(3 - Len(d)) |-> 0] \o d

\* _generate_file_path: paths
FilePaths ==
    << "src/api/controllers/user.controller.ts",
       "src/services/auth.service.ts",
       "src/middleware/auth.middleware.ts",
       "src/utils/database.utils.ts",
       "src/components/UserProfile.tsx",
       "src/routes/api.routes.ts",
       "packages/core/src/services/payment.service.ts",
       "apps/api/src/handlers/webhook.handler.ts",
       "lib/security/validator.ts",
       "config/production.config.ts" >>

\* _generate_impact
GenerateImpact(severity) ==
    CASE severity = "critical" -> "Complete system compromise possible"
      [] severity = "high" -> "Significant security or performance impact"
      [] severity = "medium" -> "Moderate impact on functionality"
      [] severity = "low" -> "Minor impact, should be fixed"
      [] OTHER -> "Unknown impact"

\* _generate_remediation_steps
GenerateRemediationSteps(issue_title) ==
    IF Contains(Chars(issue_title), Chars("API Key"))
    THEN << "Remove all hardcoded secrets immediately",
            "Rotate all exposed API keys",
            "Implement environment variable management",
            "Use secret management service" >>
    ELSE IF Contains(Chars(issue_title), Chars("SQL Injection"))
    THEN << "Use parameterized queries",
            "Implement input validation",
            "Use ORM with built-in protection",
            "Add SQL injection detection" >>
    ELSE << "Review and fix the identified issue",
            "Add tests to prevent regression",
            "Update documentation" >>

\* _generate_cvss_vector, score in tenths
GenerateCvssVector(score) ==
    IF score >= 90 THEN "CVSS:3.1/AV:N/AC:L/PR:N/UI:N/S:U/C:H/I:H/A:H"
    ELSE IF score >= 70 THEN "CVSS:3.1/AV:N/AC:L/PR:L/UI:N/S:U/C:H/I:H/A:N"
    ELSE "CVSS:3.1/AV:N/AC:H/PR:L/UI:R/S:U/C:L/I:L/A:N"

\* _generate_code_snippet: snippets, in insertion order
snippets ==
    << <<"api_key", "snippet: OPENROUTER_API_KEY exposed">>,
       <<"SELECT", "snippet: SQL built from userId">>,
       <<"innerHTML", "snippet: innerHTML = userInput">> >>

RECURSIVE SnippetFrom(_, _)
SnippetFrom(pattern, k) ==
    IF k > Len(snippets) THEN "// Vulnerable code pattern detected"
    ELSE IF Contains(pattern, Chars(snippets[k][1])) THEN snippets[k][2]
    ELSE SnippetFrom(pattern, k + 1)

\* mutant: a key matches only a pattern equal to it
GenerateCodeSnippetByEquality(pattern) ==
    IF \E k \in 1..Len(snippets) : Chars(snippets[k][1]) = pattern
    THEN snippets[CHOOSE k \in 1..Len(snippets) :
                      Chars(snippets[k][1]) = pattern][2]
    ELSE "// Vulnerable code pattern detected"

GenerateCodeSnippet(pattern) == SnippetFrom(pattern, 1)

\* f"<verb> {template['title'].lower()}"
Immediate(verb, title) == [verb |-> verb, lower_of |-> title]

\* mutant: the offset is subtracted whatever the severity
CvssOfOffsetAlways(template, severity, offset) ==
    [score |-> template.cvss_score - offset,
     vector |-> GenerateCvssVector(template.cvss_score)]

\* mutant: the vector is chosen by the score the issue reports
CvssOfVectorByReported(template, severity, offset) ==
    LET score == IF severity = "critical" THEN template.cvss_score
                 ELSE template.cvss_score - offset
    IN  [score |-> score, vector |-> GenerateCvssVector(score)]

\* issue['cvss'], in tenths; offset is the draw of random.uniform(1, 3),
\* made only when the severity is not critical
CvssOf(template, severity, offset) ==
    [score |-> IF severity = "critical" THEN template.cvss_score
               ELSE template.cvss_score - offset,
     vector |-> GenerateCvssVector(template.cvss_score)]

\* the body of the security loop for i (from 0)
SecurityIssue(tape, i) ==
    LET template == ChoiceAt(tape, i, self.issue_templates.security)
        severity == GetRandomSeverity(RandomAt(tape, i))
        base ==
            [id |-> [prefix |-> "SEC-", number |-> Format03d(i + 1)],
             severity |-> Upper(severity),
             category |-> "Security",
             title |-> template.title,
             location |-> [file |-> ChoiceAt(tape, i, FilePaths),
                           line |-> RandIntAt(tape, i, 10, 500),
                           column |-> RandIntAt(tape, i, 1, 80)],
             impact |-> GenerateImpact(severity),
             remediation |->
                 [immediate |-> Immediate("Fix", template.title),
                  steps |-> GenerateRemediationSteps(template.title)],
             evidence |->
                 [snippet |-> GenerateCodeSnippet(
                                  Chars(TemplateGet(template, "pattern", "")))]]
        cwe == IF "cwe_id" \in DOMAIN template
               THEN [cwe |-> [id |-> template.cwe_id, name |-> template.cwe_name]]
               ELSE EmptyDict
        cvss == IF "cvss_score" \in DOMAIN template
                THEN [cvss |-> CvssOf(template, severity,
                                      RandIntAt(tape, i, 10, 30))]
                ELSE EmptyDict
    IN  base @@ cwe @@ cvss

\* mutant: the performance loop draws its severity from the sampler
PerformanceIssueSampled(tape, i) ==
    LET template == ChoiceAt(tape, i, self.issue_templates.performance)
        severity == GetRandomSeverity(RandomAt(tape, i))
    IN  [id |-> [prefix |-> "PERF-", number |-> Format03d(i + 1)],
         severity |-> Upper(severity),
         category |-> "Performance",
         title |-> template.title,
         location |-> [file |-> ChoiceAt(tape, i, FilePaths),
                       line |-> RandIntAt(tape, i, 10, 500)],
         impact |-> TemplateGet(template, "impact", "Performance degradation"),
         remediation |->
             [immediate |-> Immediate("Optimize", template.title),
              steps |-> GenerateRemediationSteps(template.title)]]

\* the body of the performance loop for i (from 0)
PerformanceIssue(tape, i) ==
    LET template == ChoiceAt(tape, i, self.issue_templates.performance)
        severity == ChoiceAt(tape, i, <<"high", "medium", "low">>)
    IN  [id |-> [prefix |-> "PERF-", number |-> Format03d(i + 1)],
         severity |-> Upper(severity),
         category |-> "Performance",
         title |-> template.title,
         location |-> [file |-> ChoiceAt(tape, i, FilePaths),
                       line |-> RandIntAt(tape, i, 10, 500)],
         impact |-> TemplateGet(template, "impact", "Performance degradation"),
         remediation |->
             [immediate |-> Immediate("Optimize", template.title),
              steps |-> GenerateRemediationSteps(template.title)]]

\* mutant: the maintainability loop labels its issues with a category
\* outside the three of the report
MaintainabilityIssueOtherCategory(tape, i) ==
    LET template == ChoiceAt(tape, i, self.issue_templates.maintainability)
        severity == ChoiceAt(tape, i, <<"medium", "low">>)
    IN  [id |-> [prefix |-> "MAINT-", number |-> Format03d(i + 1)],
         severity |-> Upper(severity),
         category |-> "Code Quality",
         title |-> template.title,
         location |-> [file |-> ChoiceAt(tape, i, FilePaths),
                       line |-> RandIntAt(tape, i, 10, 500)],
         impact |-> TemplateGet(template, "impact", "Reduced code maintainability"),
         remediation |->
             [immediate |-> Immediate("Refactor to improve", template.title),
              steps |-> <<"Refactor code", "Add tests", "Update documentation">>]]

\* the body of the maintainability loop for i (from 0)
MaintainabilityIssue(tape, i) ==
    LET template == ChoiceAt(tape, i, self.issue_templates.maintainability)
        severity == ChoiceAt(tape, i, <<"medium", "low">>)
    IN  [id |-> [prefix |-> "MAINT-", number |-> Format03d(i + 1)],
         severity |-> Upper(severity),
         category |-> "Maintainability",
         title |-> template.title,
         location |-> [file |-> ChoiceAt(tape, i, FilePaths),
                       line |-> RandIntAt(tape, i, 10, 500)],
         impact |-> TemplateGet(template, "impact", "Reduced code maintainability"),
         remediation |->
             [immediate |-> Immediate("Refactor to improve", template.title),
              steps |-> <<"Refactor code", "Add tests", "Update documentation">>]]

\* mutant: round(total_issues * 0.3) in place of int(...)
SecurityCountRounded(total_issues) == (3 * total_issues + 5) \div 10

\* security_count = int(total_issues * 0.3)
SecurityCount(total_issues) == IntTimes03(total_issues)

\* perf_count = int(total_issues * 0.25)
PerfCount(total_issues) == IntTimes025(total_issues)

\* maint_count = total_issues - security_count - perf_count
MaintCount(total_issues) ==
    total_issues - SecurityCount(total_issues) - PerfCount(total_issues)

\* the three loops for counts s, p, m: each appends its issues in turn
IssueBlocks(tape, s, p, m) ==
    [k \in 1..s |-> SecurityIssue(tape, k - 1)]
    \o [k \in 1..p |-> PerformanceIssue(tape, k - 1)]
    \o [k \in 1..m |-> MaintainabilityIssue(tape, k - 1)]

\* _generate_issues, total_issues being the draw of random.randint(200, 350)
GenerateIssues(total_issues, tape) ==
    IssueBlocks(tape, SecurityCount(total_issues), PerfCount(total_issues),
                MaintCount(total_issues))

(***************************************************************************)
(* Recommendation Engine: _generate_recommendations.                       *)
(***************************************************************************)
BaseRecommendations ==
    << [id |-> "REC-001", category |-> "Security", priority |-> "HIGH",
        title |-> "Implement Security Headers",
        description |-> "Add security headers like CSP, HSTS, X-Frame-Options to prevent common attacks",
        impact |-> "Prevents XSS, clickjacking, and other client-side attacks",
        effort |-> "LOW", estimated_hours |-> 4,
        steps |-> << "Add helmet.js middleware", "Configure CSP policy",
                     "Enable HSTS with preload", "Test security headers" >>],
       [id |-> "REC-002", category |-> "Security", priority |-> "HIGH",
        title |-> "Implement Rate Limiting",
        description |-> "Add rate limiting to prevent API abuse and DoS attacks",
        impact |-> "Prevents API abuse and ensures availability",
        effort |-> "MEDIUM", estimated_hours |-> 8,
        steps |-> << "Install rate limiting middleware",
                     "Configure limits per endpoint",
                     "Add Redis for distributed limiting",
                     "Monitor and adjust limits" >>],
       [id |-> "REC-003", category |-> "Performance", priority |-> "MEDIUM",
        title |-> "Optimize Database Queries",
        description |-> "Add indexes and optimize slow queries identified in analysis",
        impact |-> "Can improve response times by 50%+",
        effort |-> "MEDIUM", estimated_hours |-> 16,
        steps |-> << "Analyze slow query logs", "Add missing indexes",
                     "Implement query caching",
                     "Use database query analyzer" >>] >>

SecurityTraining ==
    [id |-> "REC-004", category |-> "Process", priority |-> "HIGH",
     title |-> "Implement Security Training",
     description |-> "Provide security training for development team",
     impact |-> "Reduces future security issues by 60%",
     effort |-> "HIGH", estimated_hours |-> 40]

\* the CRITICAL count above which the fourth recommendation is appended
CriticalThreshold == 5

IsCritical(i) == i.severity = "CRITICAL"

\* mutant: >= 5 in place of > 5
TrainingNeededAtThreshold(seq) == CountIf(seq, IsCritical) >= CriticalThreshold

\* len([i for i in issues if i['severity'] == 'CRITICAL']) > 5
TrainingNeeded(seq) == CountIf(seq, IsCritical) > CriticalThreshold

GenerateRecommendations(seq) ==
    IF TrainingNeeded(seq)
    THEN Append(BaseRecommendations, SecurityTraining)
    ELSE BaseRecommendations

(***************************************************************************)
(* Score Calculator: _calculate_scores.  Scores are in halves of a point   *)
(* until int() is applied.                                                 *)
(***************************************************************************)
IsSecurity(i) == i.category = "Security"
IsPerformance(i) == i.category = "Performance"
IsMaintainability(i) == i.category = "Maintainability"

\* mutant: the deduction is added to the score
SecurityScore2Added(seq) == 200 + Min(3 * CountIf(seq, IsSecurity), 70)

\* mutant: the deduction is not capped
SecurityScore2Uncapped(seq) == 200 - 3 * CountIf(seq, IsSecurity)

\* 100 - min(security_issues * 1.5, 35), in halves
SecurityScore2(seq) == 200 - Min(3 * CountIf(seq, IsSecurity), 70)

\* 100 - min(performance_issues * 2, 30), in halves
PerformanceScore2(seq) == 200 - Min(4 * CountIf(seq, IsPerformance), 60)

\* 100 - min(maintainability_issues * 0.5, 20), in halves
MaintainabilityScore2(seq) == 200 - Min(CountIf(seq, IsMaintainability), 40)

\* mutant: the mean is taken of the three scores as they are reported
OverallOfReported(seq) ==
    ((SecurityScore2(seq) \div 2) + (PerformanceScore2(seq) \div 2)
        + (MaintainabilityScore2(seq) \div 2)) \div 3

\* int((security_score + performance_score + maintainability_score) / 3):
\* the sum is exact in doubles; its third is either an integer, and exact,
\* or at least 1/6 away from one, so int() of the rounded quotient is the
\* floor of the exact one
Overall(seq) ==
    (SecurityScore2(seq) + PerformanceScore2(seq) + MaintainabilityScore2(seq))
        \div 6

\* _calculate_scores, testing being the draw of random.randint(65, 85)
CalculateScores(seq, testing) ==
    [overall |-> Max(Overall(seq), 40),
     security |-> Max(SecurityScore2(seq) \div 2, 40),
     performance |-> Max(PerformanceScore2(seq) \div 2, 50),
     maintainability |-> Max(MaintainabilityScore2(seq) \div 2, 60),
     testing |-> testing]

(***************************************************************************)
(* _count_by_severity.                                                     *)
(***************************************************************************)
\* mutant: counts starts empty, so only the severities that occur are keys
CountBySeverityPresentOnly(seq) ==
    LET keys == {Lower(seq[k].severity) : k \in 1..Len(seq)}
    IN  [s \in keys |->
            Cardinality({k \in 1..Len(seq) : Lower(seq[k].severity) = s})]

\* mutant: only the Security issues are tallied
CountBySeverityOfSecurity(seq) ==
    [s \in {"critical", "high", "medium", "low"} |->
        Cardinality({k \in 1..Len(seq) :
                        Lower(seq[k].severity) = s /\ IsSecurity(seq[k])})]

\* the loop over the issues, folded: every key starts at 0 (the four of
\* counts) or is created by counts.get(severity, 0), and is incremented
\* once per issue with that severity
CountBySeverity(seq) ==
    LET keys == {"critical", "high", "medium", "low"}
                \cup {Lower(seq[k].severity) : k \in 1..Len(seq)}
    IN  [s \in keys |->
            Cardinality({k \in 1..Len(seq) : Lower(seq[k].severity) = s})]

(***************************************************************************)
(* Version-control lookups: _get_git_commit and _get_git_branch.           *)
(***************************************************************************)
\* the state of the version-control tool at a directory:
\*   no_git     the git executable cannot be started
\*   not_repo   the directory is in no repository
\*   unborn     a repository without a commit
\*   on_branch  a commit checked out on a branch
\*   detached   a commit checked out with a detached HEAD
VcsStates == {"no_git", "not_repo", "unborn", "on_branch", "detached"}

HeadHash ==
    <<"c", "5", "4", "9", "3", "3", "2", "2", "e", "2", "7", "2", "c",
      "9", "f", "0", "2", "c", "c", "8", "1", "8", "0", "5", "c", "8",
      "0", "2", "6", "5", "6", "0", "2", "a", "d", "6", "a", "9", "6",
      "c", "\n">>

\* subprocess.run(['git', 'rev-parse', 'HEAD'], cwd=repo_path, ...):
\* raises when the directory cannot be entered or git cannot be started
RevParseHead(path, v) ==
    CASE FsKind(path) \in {"missing", "unreadable"} \/ v = "no_git" ->
           [raised |-> TRUE, returncode |-> 0, stdout |-> <<>>]
      [] v = "not_repo" ->
           [raised |-> FALSE, returncode |-> 128, stdout |-> <<>>]
      [] v = "unborn" ->
           [raised |-> FALSE, returncode |-> 128,
            stdout |-> <<"H", "E", "A", "D", "\n">>]
      [] OTHER ->
           [raised |-> FALSE, returncode |-> 0, stdout |-> HeadHash]

\* subprocess.run(['git', 'branch', '--show-current'], cwd=repo_path, ...)
BranchShowCurrent(path, v) ==
    CASE FsKind(path) \in {"missing", "unreadable"} \/ v = "no_git" ->
           [raised |-> TRUE, returncode |-> 0, stdout |-> <<>>]
      [] v = "not_repo" ->
           [raised |-> FALSE, returncode |-> 128, stdout |-> <<>>]
      [] v = "unborn" ->
           [raised |-> FALSE, returncode |-> 0,
            stdout |-> <<"m", "a", "s", "t", "e", "r", "\n">>]
      [] v = "on_branch" ->
           [raised |-> FALSE, returncode |-> 0,
            stdout |-> <<"d", "e", "v", "e", "l", "o", "p", "\n">>]
      [] OTHER ->
           [raised |-> FALSE, returncode |-> 0, stdout |-> <<>>]

\* str.strip(): leading and trailing whitespace removed
Whitespace == {" ", "\n", "\t", "\r"}

RECURSIVE LStrip(_)
LStrip(s) ==
    IF s # <<>> /\ Head(s) \in Whitespace THEN LStrip(Tail(s)) ELSE s

RECURSIVE RStrip(_)
RStrip(s) ==
    IF s # <<>> /\ s[Len(s)] \in Whitespace
    THEN RStrip(SubSeq(s, 1, Len(s) - 1))
    ELSE s

Strip(s) == RStrip(LStrip(s))

\* hashlib.md5(repo_path.encode()).hexdigest(): the MD5 digests of the
\* paths of the model
Md5Hex(path) ==
    CASE path = "/srv/repo" ->
           <<"f", "d", "d", "a", "1", "f", "5", "a", "c", "3", "7", "4",
             "b", "0", "7", "a", "f", "6", "f", "5", "3", "8", "b", "3",
             "3", "2", "9", "9", "b", "7", "8", "7">>
      [] path = "/srv/docs" ->
           <<"3", "6", "d", "1", "3", "c", "d", "4", "1", "4", "a", "7",
             "4", "b", "b", "4", "5", "5", "3", "3", "9", "7", "f", "9",
             "3", "c", "2", "5", "9", "5", "4", "7">>
      [] path = "/nonexistent" ->
           <<"d", "a", "d", "6", "6", "3", "1", "3", "b", "e", "e", "4",
             "4", "4", "e", "e", "a", "5", "b", "4", "5", "0", "c", "4",
             "7", "5", "d", "d", "0", "3", "d", "f">>
      [] path = "/root/private" ->
           <<"0", "b", "1", "4", "4", "a", "7", "e", "8", "3", "c", "f",
             "1", "b", "f", "9", "d", "5", "3", "7", "c", "9", "6", "1",
             "c", "9", "b", "3", "4", "f", "e", "4">>
      [] path = "/srv/deep" ->
           <<"b", "4", "7", "f", "4", "f", "5", "5", "1", "e", "4", "2",
             "7", "f", "b", "a", "7", "c", "2", "a", "1", "6", "d", "6",
             "f", "d", "6", "e", "e", "e", "e", "8">>

HashLen == 12

\* mutant: the digest is not cut to 12 characters
GetGitCommitFullDigest(path, v) ==
    LET r == RevParseHead(path, v)
    IN  IF r.raised THEN Md5Hex(path)
        ELSE IF r.returncode = 0 THEN Strip(r.stdout)
        ELSE <<"u", "n", "k", "n", "o", "w", "n">>

\* _get_git_commit
GetGitCommit(path, v) ==
    LET r == RevParseHead(path, v)
    IN  IF r.raised THEN SubSeq(Md5Hex(path), 1, HashLen)
        ELSE IF r.returncode = 0 THEN Strip(r.stdout)
        ELSE <<"u", "n", "k", "n", "o", "w", "n">>

\* mutant: a non-zero exit gives 'unknown', as for the commit
GetGitBranchUnknown(path, v) ==
    LET r == BranchShowCurrent(path, v)
    IN  IF r.raised THEN <<"m", "a", "i", "n">>
        ELSE IF r.returncode = 0 THEN Strip(r.stdout)
        ELSE <<"u", "n", "k", "n", "o", "w", "n">>

\* _get_git_branch
GetGitBranch(path, v) ==
    LET r == BranchShowCurrent(path, v)
    IN  IF r.raised THEN <<"m", "a", "i", "n">>
        ELSE IF r.returncode = 0 THEN Strip(r.stdout)
        ELSE <<"m", "a", "i", "n">>

(***************************************************************************)
(* _analyze_dependencies and the synthesized testing and quality numbers.  *)
(* The draws outside the issue generator are the lowest or the highest     *)
(* value of their ranges, all the lowest or all the highest in one run;    *)
(* the floats of round(random.uniform(a, b), 1) are in tenths.             *)
(***************************************************************************)
Extremes == {"lowest", "highest"}

Pick(e, a, b) == IF e = "lowest" THEN a ELSE b

DebtHoursMin == 2
DebtHoursMax == 4
TestingMin == 65
TestingMax == 85

\* the seeds followed through a whole run of the command line: the total
\* of _generate_issues at the ends of its range, the tapes without
\* CRITICAL draws after the leading run, with no run or one around the
\* threshold of the fourth recommendation
AllSeeds ==
    [total : {TotalIssuesMin, TotalIssuesMax},
     tape : {t \in Tapes : /\ t.pat = 1
                           /\ t.rot = 0
                           /\ t.ncrit = 0 \/ t.ncrit >= CriticalThreshold},
     e : Extremes,
     testing : {TestingMin, TestingMax},
     per_issue : RandInt(DebtHoursMin, DebtHoursMax)]

AnalyzeDependencies(e) ==
    [total |-> Pick(e, 800, 1500),
     direct |-> Pick(e, 50, 150),
     vulnerable |-> Pick(e, 15, 30),
     outdated |-> Pick(e, 100, 300),
     deprecated |-> Pick(e, 5, 15)]

Testing(e) ==
    [coverage_percent |-> Pick(e, 60, 85), missing_tests |-> Pick(e, 15, 45)]

Seeds ==
    {s \in AllSeeds : s.testing = Pick(s.e, TestingMin, TestingMax)}

\* mutant: random.randint(2, 4) is drawn again for every issue, the first
\* draw being the lowest
QualityDrawnPerIssue(e, seq, per_issue) ==
    [metrics |-> [cyclomatic_complexity |-> Pick(e, 80, 150),
                  cognitive_complexity |-> Pick(e, 60, 120),
                  maintainability_index |-> Pick(e, 65, 85)],
     duplicated_lines_percent |-> Pick(e, 50, 200),
     technical_debt_hours |->
         IF seq = <<>> THEN 0 ELSE DebtHoursMin + (Len(seq) - 1) * per_issue]

\* per_issue is the draw of random.randint(2, 4)
Quality(e, seq, per_issue) ==
    [metrics |-> [cyclomatic_complexity |-> Pick(e, 80, 150),
                  cognitive_complexity |-> Pick(e, 60, 120),
                  maintainability_index |-> Pick(e, 65, 85)],
     duplicated_lines_percent |-> Pick(e, 50, 200),
     technical_debt_hours |-> Len(seq) * per_issue]

\* json.dumps(report, indent=2): the text of the report
JsonDumps(r) == [json_of |-> r]

(***************************************************************************)
(* The command line.                                                       *)
(***************************************************************************)
Prog == "mock-deepwiki.py"

\* the argument lists after `analyze <path>`
FormatArgs ==
    { <<>>, <<"--format">>, <<"--format", "json">>, <<"--format", "text">>,
      <<"--format", "xml">>, <<"json">> }

Argvs ==
    { <<Prog>>, <<Prog, "--version">>, <<Prog, "--version", "/srv/repo">>,
      <<Prog, "analyze">>, <<Prog, "scan">>, <<Prog, "scan", "/srv/repo">>,
      <<Prog, "--format", "json">> }
    \cup { <<Prog, "analyze", p>> \o f : p \in Paths, f \in FormatArgs }

\* the states the version-control tool can be in at the model's paths
VcsAt(path) ==
    CASE path = "/srv/repo" -> {"on_branch", "detached", "unborn", "no_git"}
      [] path = "/srv/docs" -> {"not_repo", "no_git"}
      [] OTHER -> {"not_repo"}

\* sys.argv[k] and len(sys.argv)
Arg(k) == argv[k + 1]
ArgC == Len(argv)

Line(fmt, arg) == [fmt |-> fmt, arg |-> arg]

Init ==
    /\ self = NewAnalyzer
    /\ argv \in Argvs
    /\ seed \in Seeds
    /\ vcs \in (IF Len(argv) >= 3 THEN VcsAt(argv[3]) ELSE {"not_repo"})
    /\ pc = "main"
    /\ stdout = <<>>
    /\ exit_code = NoExit
    /\ repo_path = None
    /\ output_format = None
    /\ file_stats = None
    /\ issues = None
    /\ report = EmptyDict
    /\ result = None
    /\ calls = <<>>

\* sys.exit(status) after printing lines
Exit(lines, status) ==
    /\ stdout' = stdout \o lines
    /\ exit_code' = status
    /\ pc' = "exited"
    /\ UNCHANGED <<self, argv, seed, vcs, repo_path, output_format, file_stats, issues,
                   report, result, calls>>

\* main, lines 507-510
MainNoCommand ==
    /\ pc = "main"
    /\ ArgC < 2
    /\ Exit(<< Line("DeepWiki Analyzer v2.0.0 (Mock)", None),
               Line("Usage: deepwiki analyze <path> [--format json]", None) >>,
            1)

\* main, lines 512-514
MainVersion ==
    /\ pc = "main"
    /\ ArgC >= 2
    /\ Arg(1) = "--version"
    /\ Exit(<< Line("DeepWiki Analyzer v2.0.0 (Mock)", None) >>, 0)

\* main, lines 516-519
MainNoPath ==
    /\ pc = "main"
    /\ ArgC >= 2
    /\ Arg(1) = "analyze"
    /\ ArgC < 3
    /\ Exit(<< Line("Error: Repository path required", None) >>, 1)

\* mutant: a command that is not known is taken for analyze when a path
\* follows it
MainUnknownRunsAnalysis ==
    /\ pc = "main"
    /\ ArgC >= 2
    /\ Arg(1) # "--version"
    /\ Arg(1) # "analyze"
    /\ IF ArgC >= 3
       THEN /\ repo_path' = Arg(2)
            /\ output_format' = "text"
            /\ pc' = "analyze_files"
            /\ calls' = Append(calls, "analyze")
            /\ UNCHANGED <<self, argv, seed, vcs, stdout, exit_code, file_stats,
                           issues, report, result>>
       ELSE Exit(<< Line("Unknown command: {sys.argv[1]}", Arg(1)) >>, 1)

\* mutant: the unknown command is reported without sys.exit(1)
MainUnknownExitZero ==
    /\ pc = "main"
    /\ ArgC >= 2
    /\ Arg(1) # "--version"
    /\ Arg(1) # "analyze"
    /\ Exit(<< Line("Unknown command: {sys.argv[1]}", Arg(1)) >>, 0)

\* main, lines 535-537
MainUnknown ==
    /\ pc = "main"
    /\ ArgC >= 2
    /\ Arg(1) # "--version"
    /\ Arg(1) # "analyze"
    /\ Exit(<< Line("Unknown command: {sys.argv[1]}", Arg(1)) >>, 1)

\* mutant: the format is the last argument, whatever precedes it
MainAnalyzeLastArgument ==
    /\ pc = "main"
    /\ ArgC >= 2
    /\ Arg(1) = "analyze"
    /\ ArgC >= 3
    /\ repo_path' = Arg(2)
    /\ output_format' = IF ArgC > 3 THEN Arg(ArgC - 1) ELSE "text"
    /\ pc' = "analyze_files"
    /\ calls' = Append(calls, "analyze")
    /\ UNCHANGED <<self, argv, seed, vcs, stdout, exit_code, file_stats, issues, report,
                   result>>

\* main, lines 521-528: the arguments are read, the analyzer is built and
\* analyze is entered
MainAnalyze ==
    /\ pc = "main"
    /\ ArgC >= 2
    /\ Arg(1) = "analyze"
    /\ ArgC >= 3
    /\ repo_path' = Arg(2)
    /\ output_format' =
           IF ArgC > 3 /\ Arg(3) = "--format" /\ ArgC > 4 THEN Arg(4)
           ELSE "text"
    /\ pc' = "analyze_files"
    /\ calls' = Append(calls, "analyze")
    /\ UNCHANGED <<self, argv, seed, vcs, stdout, exit_code, file_stats, issues, report,
                   result>>

\* the callees that read the file system: os.walk in _analyze_files
FilesystemCalls == {"_analyze_files"}

\* the callees that start a process: subprocess.run in the two git lookups
SubprocessCalls == {"_get_git_commit", "_get_git_branch"}

(***************************************************************************)
(* analyze, step by step in the order of evaluation.                       *)
(***************************************************************************)
\* line 95
AnalyzeFilesStep ==
    /\ pc = "analyze_files"
    /\ file_stats' = AnalyzeFiles(repo_path,
                                  Pick(seed.e, FallbackFilesMin, FallbackFilesMax))
    /\ pc' = "generate_issues"
    /\ calls' = Append(calls, "_analyze_files")
    /\ UNCHANGED <<self, argv, seed, vcs, stdout, exit_code, repo_path, output_format,
                   issues, report, result>>

\* mutant: the generator removes the first Security template from the pool
\* of the instance once the issues are made
GenerateIssuesStepConsumingTemplates ==
    /\ pc = "generate_issues"
    /\ issues' = GenerateIssues(seed.total, seed.tape)
    /\ self' = [self EXCEPT !.issue_templates.security = Tail(@)]
    /\ pc' = "timing"
    /\ calls' = Append(calls, "_generate_issues")
    /\ UNCHANGED <<argv, seed, vcs, stdout, exit_code, repo_path, output_format,
                   file_stats, report, result>>

\* line 98
GenerateIssuesStep ==
    /\ pc = "generate_issues"
    /\ issues' = GenerateIssues(seed.total, seed.tape)
    /\ pc' = "timing"
    /\ calls' = Append(calls, "_generate_issues")
    /\ UNCHANGED <<self, argv, seed, vcs, stdout, exit_code, repo_path, output_format,
                   file_stats, report, result>>

\* lines 102-103; the clock reading is not modelled
TimingStep ==
    /\ pc = "timing"
    /\ report' = report @@ [scan_completed_at |-> "utc-now",
                            scan_duration_ms |-> Pick(seed.e, 45000, 65000)]
    /\ pc' = "git_commit"
    /\ UNCHANGED <<self, argv, seed, vcs, stdout, exit_code, repo_path, output_format,
                   file_stats, issues, result, calls>>

\* line 106
GitCommitStep ==
    /\ pc = "git_commit"
    /\ report' = report @@
           [repository |-> [path |-> repo_path,
                            commit |-> GetGitCommit(repo_path, vcs)]]
    /\ pc' = "git_branch"
    /\ calls' = Append(calls, "_get_git_commit")
    /\ UNCHANGED <<self, argv, seed, vcs, stdout, exit_code, repo_path, output_format,
                   file_stats, issues, result>>

\* mutant: the branch is reported as 'main' without asking git
GitBranchStepWithoutLookup ==
    /\ pc = "git_branch"
    /\ report' = [report EXCEPT !.repository = @ @@ [branch |-> <<"m", "a", "i", "n">>]]
    /\ pc' = "scores"
    /\ UNCHANGED <<self, argv, seed, vcs, stdout, exit_code, repo_path, output_format,
                   file_stats, issues, result, calls>>

\* line 107
GitBranchStep ==
    /\ pc = "git_branch"
    /\ report' = [report EXCEPT !.repository =
                      @ @@ [branch |-> GetGitBranch(repo_path, vcs)]]
    /\ pc' = "scores"
    /\ calls' = Append(calls, "_get_git_branch")
    /\ UNCHANGED <<self, argv, seed, vcs, stdout, exit_code, repo_path, output_format,
                   file_stats, issues, result>>

\* line 109
ScoresStep ==
    /\ pc = "scores"
    /\ report' = report @@
           [scores |-> CalculateScores(issues, seed.testing)]
    /\ pc' = "statistics"
    /\ calls' = Append(calls, "_calculate_scores")
    /\ UNCHANGED <<self, argv, seed, vcs, stdout, exit_code, repo_path, output_format,
                   file_stats, issues, result>>

\* lines 110-116
StatisticsStep ==
    /\ pc = "statistics"
    /\ report' = report @@
           [statistics |->
                [files_analyzed |-> file_stats.total_files,
                 total_issues |-> Len(issues),
                 issues_by_severity |-> CountBySeverity(issues),
                 languages |-> file_stats.languages],
            vulnerabilities |-> issues]
    /\ pc' = "recommendations"
    /\ calls' = Append(calls, "_count_by_severity")
    /\ UNCHANGED <<self, argv, seed, vcs, stdout, exit_code, repo_path, output_format,
                   file_stats, issues, result>>

\* mutant: the recommendations are made from a second run of the generator
RecommendationsStepRegenerating ==
    /\ pc = "recommendations"
    /\ issues' = GenerateIssues(TotalIssuesMin + TotalIssuesMax - seed.total,
                                seed.tape)
    /\ report' = report @@
           [recommendations |-> GenerateRecommendations(issues')]
    /\ pc' = "synthesize"
    /\ calls' = calls \o << "_generate_issues", "_generate_recommendations" >>
    /\ UNCHANGED <<self, argv, seed, vcs, stdout, exit_code, repo_path, output_format,
                   file_stats, result>>

\* line 117
RecommendationsStep ==
    /\ pc = "recommendations"
    /\ report' = report @@
           [recommendations |-> GenerateRecommendations(issues)]
    /\ pc' = "synthesize"
    /\ calls' = Append(calls, "_generate_recommendations")
    /\ UNCHANGED <<self, argv, seed, vcs, stdout, exit_code, repo_path, output_format,
                   file_stats, issues, result>>

\* lines 118-131
SynthesizeStep ==
    /\ pc = "synthesize"
    /\ report' = report @@
           [dependencies |-> AnalyzeDependencies(seed.e),
            testing |-> Testing(seed.e),
            quality |-> Quality(seed.e, issues, seed.per_issue)]
    /\ pc' = "return"
    /\ calls' = Append(calls, "_analyze_dependencies")
    /\ UNCHANGED <<self, argv, seed, vcs, stdout, exit_code, repo_path, output_format,
                   file_stats, issues, result>>

\* lines 134-136 and the return to main
ReturnStep ==
    /\ pc = "return"
    /\ result' = IF output_format = "json" THEN JsonDumps(report) ELSE report
    /\ pc' = "print"
    /\ UNCHANGED <<self, argv, seed, vcs, stdout, exit_code, repo_path, output_format,
                   file_stats, issues, report, calls>>

\* main, lines 530-534, and the normal end of the process
PrintStep ==
    /\ pc = "print"
    /\ stdout' = stdout \o
           (IF output_format = "json"
            THEN << Line("{result}", result) >>
            ELSE << Line("Analysis complete for {repo_path}", repo_path),
                    Line("Use --format json for detailed output", None) >>)
    /\ exit_code' = 0
    /\ pc' = "exited"
    /\ UNCHANGED <<self, argv, seed, vcs, repo_path, output_format, file_stats, issues,
                   report, result, calls>>

Next ==
    \/ MainNoCommand
    \/ MainVersion
    \/ MainNoPath
    \/ MainUnknown
    \/ MainAnalyze
    \/ AnalyzeFilesStep
    \/ GenerateIssuesStep
    \/ TimingStep
    \/ GitCommitStep
    \/ GitBranchStep
    \/ ScoresStep
    \/ StatisticsStep
    \/ RecommendationsStep
    \/ SynthesizeStep
    \/ ReturnStep
    \/ PrintStep

Spec == Init /\ [][Next]_vars

(***************************************************************************)
(* The issue generator on its own: every total of random.randint(200, 350) *)
(* and the tapes with no leading run of CRITICAL draws or the longest,     *)
(* from the call of _generate_issues in a run of `analyze /srv/repo`.      *)
(***************************************************************************)
GenSeeds ==
    [total : RandInt(TotalIssuesMin, TotalIssuesMax),
     tape : {t \in Tapes : t.ncrit \in {0, MaxCritRun}},
     e : {"lowest"},
     testing : {TestingMin},
     per_issue : {DebtHoursMin}]

InitGen ==
    /\ self = NewAnalyzer
    /\ argv = <<Prog, "analyze", "/srv/repo">>
    /\ seed \in GenSeeds
    /\ vcs = "on_branch"
    /\ pc = "generate_issues"
    /\ stdout = <<>>
    /\ exit_code = NoExit
    /\ repo_path = "/srv/repo"
    /\ output_format = "text"
    /\ file_stats = AnalyzeFiles("/srv/repo", FallbackFilesMin)
    /\ issues = None
    /\ report = EmptyDict
    /\ result = None
    /\ calls = <<"analyze", "_analyze_files">>

NextGen == GenerateIssuesStep

SpecGen == InitGen /\ [][NextGen]_vars

(***************************************************************************)
(* The score calculator and the recommendation engine on their own, on     *)
(* issue sequences of any category counts: one count runs through its      *)
(* range while the other two are 0 or at their bounds, without CRITICAL    *)
(* issues; Security issues alone, led by every run of CRITICAL ones; and   *)
(* small mixed sequences, where no deduction is capped.                    *)
(***************************************************************************)
InputCounts ==
    {c \in (0..MaxSec) \X (0..MaxPerf) \X (0..MaxMaint) :
        Cardinality({k \in 1..3 :
                        c[k] \in {0, <<MaxSec, MaxPerf, MaxMaint>>[k]}}) >= 2}

InputTapes == {t \in Tapes : t.pat = 1 /\ t.rot = 0}

NoCritTape == CHOOSE t \in InputTapes : t.ncrit = 0

InputIssues ==
    {IssueBlocks(NoCritTape, c[1], c[2], c[3]) : c \in InputCounts}
    \cup {IssueBlocks(t, s, 0, 0) : s \in 0..MaxSec, t \in InputTapes}
    \cup {IssueBlocks(NoCritTape, s, p, m) :
             s \in 0..MaxMixed, p \in {0, 1}, m \in 0..MaxMixed}

InitFn ==
    /\ self = NewAnalyzer
    /\ issues \in InputIssues
    /\ argv = <<Prog>>
    /\ seed \in [total : {TotalIssuesMin}, tape : {NoCritTape},
                 e : {"lowest"}, testing : RandInt(TestingMin, TestingMax),
                 per_issue : {DebtHoursMin}]
    /\ vcs = "not_repo"
    /\ pc = "call"
    /\ stdout = <<>>
    /\ exit_code = NoExit
    /\ repo_path = None
    /\ output_format = None
    /\ file_stats = None
    /\ report = EmptyDict
    /\ result = None
    /\ calls = <<>>

\* _generate_recommendations(issues)
ApplyGenerateRecommendations ==
    /\ pc = "call"
    /\ report' = report @@ [recommendations |-> GenerateRecommendations(issues)]
    /\ pc' = "recommended"
    /\ calls' = Append(calls, "_generate_recommendations")
    /\ UNCHANGED <<self, argv, seed, vcs, stdout, exit_code, repo_path, output_format,
                   file_stats, issues, result>>

\* _calculate_scores(issues)
ApplyCalculateScores ==
    /\ pc = "recommended"
    /\ report' = report @@ [scores |-> CalculateScores(issues, seed.testing)]
    /\ pc' = "scored"
    /\ calls' = Append(calls, "_calculate_scores")
    /\ UNCHANGED <<self, argv, seed, vcs, stdout, exit_code, repo_path, output_format,
                   file_stats, issues, result>>

NextFn ==
    \/ ApplyGenerateRecommendations
    \/ ApplyCalculateScores

SpecFn == InitFn /\ [][NextFn]_vars

(***************************************************************************)
(* analyze from the Issue Generator to its return, for every total of      *)
(* random.randint(200, 350).                                               *)
(***************************************************************************)
ReportSeeds == {s \in GenSeeds : s.tape.pat = 1 /\ s.tape.rot = 0}

InitReport ==
    /\ self = NewAnalyzer
    /\ argv = <<Prog, "analyze", "/srv/repo">>
    /\ seed \in ReportSeeds
    /\ vcs = "on_branch"
    /\ pc = "generate_issues"
    /\ stdout = <<>>
    /\ exit_code = NoExit
    /\ repo_path = "/srv/repo"
    /\ output_format = "text"
    /\ file_stats = AnalyzeFiles("/srv/repo", FallbackFilesMin)
    /\ issues = None
    /\ report = EmptyDict
    /\ result = None
    /\ calls = <<"analyze", "_analyze_files">>

NextReport ==
    \/ GenerateIssuesStep
    \/ TimingStep
    \/ GitCommitStep
    \/ GitBranchStep
    \/ ScoresStep
    \/ StatisticsStep
    \/ RecommendationsStep
    \/ SynthesizeStep
    \/ ReturnStep

SpecReport == InitReport /\ [][NextReport]_vars

(***************************************************************************)
(* Two invocations of analyze against the same path, one after the other,  *)
(* with independent draws: the first report is kept in result while the    *)
(* second is built in report.                                              *)
(***************************************************************************)
PairSeeds ==
    {s \in Seeds : s.e = "lowest" /\ s.per_issue \in {DebtHoursMin, DebtHoursMax}}

PairArgvs ==
    { <<Prog, "analyze", "/srv/repo">>, <<Prog, "analyze", "/srv/deep">>,
      <<Prog, "analyze", "/srv/docs", "--format", "json">> }

InitTwo ==
    /\ self = NewAnalyzer
    /\ argv \in PairArgvs
    /\ seed \in PairSeeds
    /\ vcs \in VcsAt(argv[3])
    /\ pc = "main"
    /\ stdout = <<>>
    /\ exit_code = NoExit
    /\ repo_path = None
    /\ output_format = None
    /\ file_stats = None
    /\ issues = None
    /\ report = EmptyDict
    /\ result = None
    /\ calls = <<>>

\* the number of times analyze has been entered
Invocations == Cardinality({k \in 1..Len(calls) : calls[k] = "analyze"})

\* analyze is entered again with the same arguments; the random module is
\* in another state
AnalyzeAgain ==
    /\ pc = "print"
    /\ Invocations = 1
    /\ seed' \in PairSeeds
    /\ report' = EmptyDict
    /\ pc' = "analyze_files"
    /\ calls' = Append(calls, "analyze")
    /\ UNCHANGED <<self, argv, vcs, stdout, exit_code, repo_path, output_format,
                   file_stats, issues, result>>

NextTwo ==
    \/ MainAnalyze
    \/ AnalyzeFilesStep
    \/ GenerateIssuesStep
    \/ TimingStep
    \/ GitCommitStep
    \/ GitBranchStep
    \/ ScoresStep
    \/ StatisticsStep
    \/ RecommendationsStep
    \/ SynthesizeStep
    \/ ReturnStep
    \/ AnalyzeAgain

SpecTwo == InitTwo /\ [][NextTwo]_vars

(***************************************************************************)
(* The scanner on its own: _analyze_files on every fixture and on the      *)
(* paths of the command line, from the call in analyze.                    *)
(***************************************************************************)
ScanPaths == Paths \cup FixturePaths

InitScan ==
    /\ repo_path \in ScanPaths
    /\ self = NewAnalyzer
    /\ argv = <<Prog, "analyze", repo_path>>
    /\ seed \in {s \in Seeds : /\ s.total = TotalIssuesMin
                               /\ s.tape.ncrit = 0
                               /\ s.per_issue = DebtHoursMin}
    /\ vcs = "not_repo"
    /\ pc = "analyze_files"
    /\ stdout = <<>>
    /\ exit_code = NoExit
    /\ output_format = "text"
    /\ file_stats = None
    /\ issues = None
    /\ report = EmptyDict
    /\ result = None
    /\ calls = <<"analyze">>

NextScan == AnalyzeFilesStep

SpecScan == InitScan /\ [][NextScan]_vars

(***************************************************************************)
(* The severity sampler on its own: _get_random_severity for every draw of *)
(* random.random(), in thousandths.                                        *)
(***************************************************************************)
Draws == 0..MaxDraw

InitSev ==
    /\ self = NewAnalyzer
    /\ argv = <<Prog>>
    /\ seed \in [rand : Draws]
    /\ vcs = "not_repo"
    /\ pc = "call"
    /\ stdout = <<>>
    /\ exit_code = NoExit
    /\ repo_path = None
    /\ output_format = None
    /\ file_stats = None
    /\ issues = None
    /\ report = EmptyDict
    /\ result = None
    /\ calls = <<>>

\* severity = self._get_random_severity()
ApplyGetRandomSeverity ==
    /\ pc = "call"
    /\ result' = GetRandomSeverity(seed.rand)
    /\ pc' = "sampled"
    /\ calls' = Append(calls, "_get_random_severity")
    /\ UNCHANGED <<self, argv, seed, vcs, stdout, exit_code, repo_path, output_format,
                   file_stats, issues, report>>

NextSev == ApplyGetRandomSeverity

SpecSev == InitSev /\ [][NextSev]_vars

(***************************************************************************)
(* Properties.                                                             *)
(***************************************************************************)
\* analyze has returned to main
Returned == pc \in {"print", "exited"} /\ calls # <<>>

\* the report analyze returned: the dict itself, or the one its JSON text
\* was made from
ReturnedReport == IF output_format = "json" THEN result.json_of ELSE result

CategoryCount(seq, category) ==
    Cardinality({k \in 1..Len(seq) : seq[k].category = category})

SeverityCount(seq, severity) ==
    Cardinality({k \in 1..Len(seq) : seq[k].severity = severity})

\* C1: in every report returned by analyze, statistics.total_issues is the
\* length of vulnerabilities, and the numbers of Security, Performance and
\* Maintainability issues add up to total_issues.
C1_TotalIssuesConsistent ==
    Returned =>
        LET r == ReturnedReport
        IN  /\ r.statistics.total_issues = Len(r.vulnerabilities)
            /\ CategoryCount(r.vulnerabilities, "Security")
               + CategoryCount(r.vulnerabilities, "Performance")
               + CategoryCount(r.vulnerabilities, "Maintainability")
               = r.statistics.total_issues

\* a returned report of 350 issues with issues of each category
C1_Witness ==
    /\ Returned
    /\ ReturnedReport.statistics.total_issues = TotalIssuesMax
    /\ \A c \in {"Security", "Performance", "Maintainability"} :
           CategoryCount(ReturnedReport.vulnerabilities, c) > 0

\* _generate_issues has returned its sequence for the total seed.total
Generated == pc = "timing"

\* C2: for every total T drawn by _generate_issues the sequence holds
\* exactly floor(T * 0.30) Security issues, floor(T * 0.25) Performance
\* issues and T minus those two Maintainability issues; for T = 200 that
\* is 60, 50 and 90.
C2_CategoryProportions ==
    Generated =>
        LET T == seed.total
            s == CategoryCount(issues, "Security")
            p == CategoryCount(issues, "Performance")
            m == CategoryCount(issues, "Maintainability")
        IN  /\ s = (30 * T) \div 100
            /\ p = (25 * T) \div 100
            /\ m = T - s - p
            /\ Len(issues) = T
            /\ T = 200 => s = 60 /\ p = 50 /\ m = 90

\* the sequence generated for the total 200
C2_Witness ==
    /\ Generated
    /\ seed.total = 200
    /\ Len(issues) = 200
    /\ CategoryCount(issues, "Maintainability") = 90

\* _generate_recommendations has returned
Recommended == "recommendations" \in DOMAIN report

\* C3: _generate_recommendations returns REC-001 (security headers,
\* HIGH/LOW/4h), REC-002 (rate limiting, HIGH/MEDIUM/8h), REC-003 (database
\* query optimization, MEDIUM/MEDIUM/16h) in that order, and a fourth
\* recommendation, REC-004, if and only if more than 5 issues are CRITICAL:
\* 5 CRITICAL issues give 3 recommendations, 6 give 4.
C3_Recommendations ==
    Recommended =>
        LET r == report.recommendations
            c == SeverityCount(issues, "CRITICAL")
            Is(x, id, title, priority, effort, hours) ==
                /\ x.id = id
                /\ x.title = title
                /\ x.priority = priority
                /\ x.effort = effort
                /\ x.estimated_hours = hours
        IN  /\ Len(r) \in {3, 4}
            /\ Is(r[1], "REC-001", "Implement Security Headers", "HIGH", "LOW", 4)
            /\ Is(r[2], "REC-002", "Implement Rate Limiting", "HIGH", "MEDIUM", 8)
            /\ Is(r[3], "REC-003", "Optimize Database Queries", "MEDIUM",
                  "MEDIUM", 16)
            /\ Len(r) = 4 <=> c > 5
            /\ Len(r) = 4 => r[4].id = "REC-004"
            /\ c = 5 => Len(r) = 3
            /\ c = 6 => Len(r) = 4

\* six CRITICAL issues, and the fourth recommendation
C3_Witness ==
    /\ Recommended
    /\ SeverityCount(issues, "CRITICAL") = 6
    /\ Len(report.recommendations) = 4

\* _calculate_scores has returned
Scored == "scores" \in DOMAIN report

\* C4: for every issue sequence given to _calculate_scores, category counts
\* of 0 included, the scores are integers with 40 <= overall <= 100,
\* 40 <= security <= 100, 50 <= performance <= 100,
\* 60 <= maintainability <= 100 and 65 <= testing <= 85.
C4_ScoreBounds ==
    Scored =>
        LET sc == report.scores
        IN  /\ \A k \in DOMAIN sc : sc[k] \in Int
            /\ 40 <= sc.overall /\ sc.overall <= 100
            /\ 40 <= sc.security /\ sc.security <= 100
            /\ 50 <= sc.performance /\ sc.performance <= 100
            /\ 60 <= sc.maintainability /\ sc.maintainability <= 100
            /\ 65 <= sc.testing /\ sc.testing <= 85

\* the scores of a sequence without Performance and Maintainability issues
\* whose Security deduction is at its cap
C4_Witness ==
    /\ Scored
    /\ CategoryCount(issues, "Security") = MaxSec
    /\ CategoryCount(issues, "Performance") = 0
    /\ CategoryCount(issues, "Maintainability") = 0
    /\ report.scores.security = 65
    /\ report.scores.performance = 100

\* C5: analyze on a nonexistent or unreadable path does not raise and
\* returns a report whose statistics.files_analyzed is in [800, 1500] and
\* whose statistics.languages is the fallback mix TypeScript 65,
\* JavaScript 20, JSON 10, Other 5.
C5_FallbackOnMissingPath ==
    (Returned /\ FsKind(repo_path) \in {"missing", "unreadable"}) =>
        LET st == ReturnedReport.statistics
        IN  /\ st.files_analyzed \in 800..1500
            /\ DOMAIN st.languages = {"TypeScript", "JavaScript", "JSON", "Other"}
            /\ st.languages["TypeScript"] = 65
            /\ st.languages["JavaScript"] = 20
            /\ st.languages["JSON"] = 10
            /\ st.languages["Other"] = 5

\* _get_git_commit has returned
CommitKnown ==
    /\ "repository" \in DOMAIN report
    /\ "commit" \in DOMAIN report.repository

\* _get_git_branch has returned
BranchKnown ==
    /\ "repository" \in DOMAIN report
    /\ "branch" \in DOMAIN report.repository

\* the lookup could not be started, or git exited with a non-zero status
Failed(run) == run.raised \/ run.returncode # 0

\* C6, as claimed: on any failure of the lookup of the commit (the
\* subprocess cannot be started, or git exits with a non-zero status)
\* repository.commit is the 12-character hash of the path string.
C6_HashOnAnyFailure ==
    (CommitKnown /\ Failed(RevParseHead(repo_path, vcs))) =>
        /\ Len(report.repository.commit) = 12
        /\ report.repository.commit = SubSeq(Md5Hex(repo_path), 1, 12)

\* C6, amended: when the subprocess call raises, repository.commit is the
\* first 12 characters of the MD5 hex digest of the path string, whatever
\* the draws and the state of the tool; when git runs and exits with a
\* non-zero status, repository.commit is the literal 'unknown'.
C6_HashOnRaiseUnknownOnExit ==
    CommitKnown =>
        LET run == RevParseHead(repo_path, vcs)
            commit == report.repository.commit
        IN  /\ run.raised =>
                /\ Len(commit) = 12
                /\ commit = SubSeq(Md5Hex(repo_path), 1, 12)
            /\ (~run.raised /\ run.returncode # 0) =>
                commit = <<"u", "n", "k", "n", "o", "w", "n">>

\* git cannot be started in an existing repository, and the commit is the
\* 12 characters fdda1f5ac374 of the MD5 of "/srv/repo"
C6_Witness ==
    /\ CommitKnown
    /\ repo_path = "/srv/repo"
    /\ RevParseHead(repo_path, vcs).raised
    /\ report.repository.commit =
           <<"f", "d", "d", "a", "1", "f", "5", "a", "c", "3", "7", "4">>

\* C7: on any failure of the lookup of the branch (the subprocess cannot
\* be started, or git exits with a non-zero status) repository.branch is
\* the literal "main".
C7_MainOnFailure ==
    (BranchKnown /\ Failed(BranchShowCurrent(repo_path, vcs))) =>
        report.repository.branch = <<"m", "a", "i", "n">>

\* git ran outside a repository and exited with 128, and the branch is main
C7_Witness ==
    /\ BranchKnown
    /\ ~BranchShowCurrent(repo_path, vcs).raised
    /\ BranchShowCurrent(repo_path, vcs).returncode # 0
    /\ report.repository.branch = <<"m", "a", "i", "n">>

\* C8: whatever the outcome of the lookups (an exception, a non-zero exit,
\* a zero exit with any output, empty output included), analyze returns,
\* and in every report repository.commit and repository.branch are both
\* present and are non-empty strings.
C8_MetadataPresent ==
    Returned =>
        LET repo == ReturnedReport.repository
        IN  /\ {"commit", "branch"} \subseteq DOMAIN repo
            /\ repo.commit # <<>>
            /\ repo.branch # <<>>

\* sys.argv[1:] is the given list
Args(list) == argv = <<Prog>> \o list

Exited == pc = "exited"

Printed(fmt) == \E k \in 1..Len(stdout) : stdout[k].fmt = fmt

AnalyzeWithPath == ArgC >= 3 /\ Arg(1) = "analyze"

\* C9: the command line exits with status 0 for --version and for analyze
\* with a path argument; it exits with a non-zero status and a message on
\* the usage error when no command is given (the usage line), when an
\* unknown command is given, and when analyze is given without a path.
C9_ExitStatus ==
    Exited =>
        /\ (ArgC >= 2 /\ Arg(1) = "--version") => exit_code = 0
        /\ AnalyzeWithPath => exit_code = 0
        /\ ArgC < 2 =>
              /\ exit_code # 0
              /\ Printed("Usage: deepwiki analyze <path> [--format json]")
        /\ (ArgC >= 2 /\ Arg(1) \notin {"--version", "analyze"}) =>
              /\ exit_code # 0
              /\ Printed("Unknown command: {sys.argv[1]}")
        /\ (ArgC = 2 /\ Arg(1) = "analyze") =>
              /\ exit_code # 0
              /\ Printed("Error: Repository path required")

\* `scan /srv/repo` has exited with status 1 and the unknown-command line
C9_Witness ==
    /\ Exited
    /\ Args(<<"scan", "/srv/repo">>)
    /\ exit_code = 1
    /\ Len(stdout) = 1
    /\ stdout[1].fmt = "Unknown command: {sys.argv[1]}"
    /\ stdout[1].arg = "scan"

\* what follows `analyze <path>` on the command line
AfterPath == SubSeq(argv, 4, Len(argv))

\* every component of the pipeline was invoked, for the path given
PipelineRan ==
    /\ calls = << "analyze", "_analyze_files", "_generate_issues",
                  "_get_git_commit", "_get_git_branch", "_calculate_scores",
                  "_count_by_severity", "_generate_recommendations",
                  "_analyze_dependencies" >>
    /\ report.repository.path = Arg(2)
    /\ DOMAIN report =
           {"scan_completed_at", "scan_duration_ms", "repository", "scores",
            "statistics", "vulnerabilities", "recommendations",
            "dependencies", "testing", "quality"}

\* C10: for `analyze <path>` the full pipeline runs against the path
\* whatever the format; the JSON report is printed if and only if the
\* format value is json; with --format omitted, given without a value or
\* given any other value, only the confirmation line and the hint are
\* printed, and nothing of the report.
C10_JsonOnlyOnRequest ==
    (Exited /\ AnalyzeWithPath) =>
        /\ PipelineRan
        /\ Printed("{result}") <=> AfterPath = <<"--format", "json">>
        /\ Printed("{result}") =>
              /\ Len(stdout) = 1
              /\ stdout[1].arg = JsonDumps(report)
        /\ AfterPath # <<"--format", "json">> =>
              /\ Len(stdout) = 2
              /\ stdout[1].fmt = "Analysis complete for {repo_path}"
              /\ stdout[1].arg = Arg(2)
              /\ stdout[2].fmt = "Use --format json for detailed output"
              /\ stdout[2].arg = None

\* `analyze /srv/docs --format json` has printed the JSON text of a report
C10_Witness ==
    /\ Exited
    /\ Args(<<"analyze", "/srv/docs", "--format", "json">>)
    /\ Len(stdout) = 1
    /\ stdout[1].fmt = "{result}"
    /\ stdout[1].arg.json_of.statistics.files_analyzed = 3

\* a component of the pipeline has been entered: analyze itself, the scan,
\* the issue generation, the lookups of commit and branch, or any later one
AnalysisStarted ==
    \/ calls # <<>>
    \/ pc \notin {"main", "exited"}
    \/ DOMAIN report # {}

\* C11: the analysis pipeline is started only when the command is analyze
\* and a path argument is present; with --version, with no command, with an
\* unknown command and with analyze without a path the process terminates
\* and no component of the pipeline has ever run.
C11_AnalysisOnlyForAnalyzeWithPath ==
    /\ AnalysisStarted => AnalyzeWithPath
    /\ (Exited /\ ~AnalyzeWithPath) =>
          /\ ~AnalysisStarted
          /\ \A k \in 1..Len(stdout) :
                 stdout[k].fmt \notin {"{result}",
                                       "Analysis complete for {repo_path}"}

\* `--version /srv/repo` has ended with the version line alone, and no
\* component of the pipeline has run
C11_Witness ==
    /\ Exited
    /\ Args(<<"--version", "/srv/repo">>)
    /\ ~AnalysisStarted
    /\ Len(stdout) = 1
    /\ stdout[1].fmt = "DeepWiki Analyzer v2.0.0 (Mock)"

Severities == {"CRITICAL", "HIGH", "MEDIUM", "LOW"}

Categories == {"Security", "Performance", "Maintainability"}

\* C12: every issue of the generated sequence, which the report carries as
\* vulnerabilities, has a severity that is one of CRITICAL, HIGH, MEDIUM,
\* LOW in upper case and a category that is one of Security, Performance,
\* Maintainability.
C12_SeverityAndCategoryDomains ==
    Generated =>
        \A k \in 1..Len(issues) :
            /\ issues[k].severity \in Severities
            /\ issues[k].category \in Categories

\* a generated sequence in which every level and every category occurs
C12_Witness ==
    /\ Generated
    /\ {issues[k].severity : k \in 1..Len(issues)} = Severities
    /\ {issues[k].category : k \in 1..Len(issues)} = Categories

\* the second invocation is about to return: report is its report, and
\* the first invocation's is the one held by main
SecondReturning == pc = "return" /\ Invocations = 2

\* the keys of an issue that hold a dict
NestedIssueKeys == {"location", "remediation", "cwe", "cvss", "evidence"}

\* the keys of an issue and of the dicts in it
IssueSchema(i) ==
    [keys |-> DOMAIN i,
     nested |-> [k \in DOMAIN i \cap NestedIssueKeys |-> DOMAIN i[k]]]

\* the keys of a report and of the dicts in it, and the schemas of the
\* issues of each category; the recommendations apart
FrameShape(r) ==
    [top |-> DOMAIN r,
     repository |-> DOMAIN r.repository,
     scores |-> DOMAIN r.scores,
     statistics |-> DOMAIN r.statistics,
     issues_by_severity |-> DOMAIN r.statistics.issues_by_severity,
     languages |-> DOMAIN r.statistics.languages,
     dependencies |-> DOMAIN r.dependencies,
     testing |-> DOMAIN r.testing,
     quality |-> DOMAIN r.quality,
     metrics |-> DOMAIN r.quality.metrics,
     issues |-> [c \in Categories |->
                    {IssueSchema(r.vulnerabilities[k]) :
                        k \in {j \in 1..Len(r.vulnerabilities) :
                                  r.vulnerabilities[j].category = c}}]]

\* the key sets found among the recommendations of a report
RecommendationSchemas(r) ==
    {DOMAIN r.recommendations[k] : k \in 1..Len(r.recommendations)}

RecommendationKeys ==
    {"id", "category", "priority", "title", "description", "impact",
     "effort", "estimated_hours", "steps"}

\* C13, as claimed: two invocations of analyze against the same path yield
\* reports of the same shape whatever the draws: the same top-level and
\* nested keys, the same key sets for the issues and the same key sets for
\* the recommendations.
C13_SameShape ==
    SecondReturning =>
        /\ FrameShape(report) = FrameShape(ReturnedReport)
        /\ RecommendationSchemas(report) = RecommendationSchemas(ReturnedReport)

\* C13, amended: two invocations against the same path yield reports with
\* the same top-level and nested keys and the same key sets for the issues
\* of each category, and with the same three leading recommendations, each
\* with the nine keys id .. steps; a fourth recommendation, whose key set
\* has no steps, is in a report exactly when its draws gave more than 5
\* CRITICAL issues, so the two recommendation lists can differ in length
\* and in the key sets found in them.
C13_SameShapeButRecommendations ==
    SecondReturning =>
        /\ FrameShape(report) = FrameShape(ReturnedReport)
        /\ \A r \in {report, ReturnedReport} :
              /\ \A k \in 1..3 : DOMAIN r.recommendations[k] = RecommendationKeys
              /\ Len(r.recommendations) \in {3, 4}
              /\ Len(r.recommendations) = 4 <=>
                     SeverityCount(r.vulnerabilities, "CRITICAL") > 5
              /\ Len(r.recommendations) = 4 =>
                     DOMAIN r.recommendations[4] = RecommendationKeys \ {"steps"}

\* the first report has three recommendations and the second four, the
\* rest of the two shapes being the same
C13_Witness ==
    /\ SecondReturning
    /\ repo_path = "/srv/repo"
    /\ Len(ReturnedReport.recommendations) = 3
    /\ Len(report.recommendations) = 4
    /\ RecommendationSchemas(report) # RecommendationSchemas(ReturnedReport)
    /\ FrameShape(report) = FrameShape(ReturnedReport)

\* _analyze_files has returned, and the walk met a readable directory
Scanned == pc # "analyze_files" /\ pc # "main" /\ calls # <<>>

ScannedDir == Scanned /\ FsKind(repo_path) = "dir"

\* the directory that lists d, and the name it lists d under
ParentOf(tree, d) ==
    CHOOSE q \in DOMAIN tree :
        \E k \in 1..Len(tree[q].dirs) : tree[q].dirs[k][2] = d

NameOf(tree, d) ==
    LET q == ParentOf(tree, d)
        k == CHOOSE j \in 1..Len(tree[q].dirs) : tree[q].dirs[j][2] = d
    IN  tree[q].dirs[k][1]

\* the names on the way from the scanned root down to d, d's included
RECURSIVE NamesTo(_, _)
NamesTo(tree, d) ==
    IF d = "root" THEN {}
    ELSE {NameOf(tree, d)} \cup NamesTo(tree, ParentOf(tree, d))

\* d is below the root and is, or lies beneath, a directory named .git,
\* node_modules, dist or build
Excluded(tree, d) ==
    NamesTo(tree, d) \cap {".git", "node_modules", "dist", "build"} # {}

\* the files of the directories that are not excluded: directory and index
Enumerable(tree) ==
    UNION {{<<d, k>> : k \in 1..Len(tree[d].files)} :
              d \in {x \in DOMAIN tree : ~Excluded(tree, x)}}

\* name ends with ext and is longer than it
EndsWith(name, ext) ==
    /\ Len(name) > Len(ext)
    /\ SubSeq(name, Len(name) - Len(ext) + 1, Len(name)) = ext

\* the language of a file name by the table, "" when it has none
LanguageOf(name) ==
    IF \E k \in 1..Len(extensions) : EndsWith(name, extensions[k][1])
    THEN extensions[CHOOSE k \in 1..Len(extensions) :
                        EndsWith(name, extensions[k][1])][2]
    ELSE ""

\* the files of a language among the enumerable ones
Classified(tree, lang) ==
    {e \in Enumerable(tree) : LanguageOf(tree[e[1]].files[e[2]]) = lang}

Languages == {extensions[k][2] : k \in 1..Len(extensions)}

\* C14: the scanner never descends into a directory named .git,
\* node_modules, dist or build at any depth below the scanned root: the
\* directories the walk visits are exactly those that are not such a
\* directory and lie beneath none, and only their files are counted in
\* total_files and in languages.
C14_PrunedBeforeDescent ==
    ScannedDir =>
        LET tree == FsTree(repo_path)
        IN  /\ \A d \in Range(WalkTop(repo_path).visited) : ~Excluded(tree, d)
            /\ Range(WalkTop(repo_path).visited) =
                   {d \in DOMAIN tree : ~Excluded(tree, d)}
            /\ file_stats.total_files = Cardinality(Enumerable(tree))
            /\ DOMAIN file_stats.languages =
                   {l \in Languages : Classified(tree, l) # {}}

\* the fixture src/build/.git: build is met at depth 2 and neither it nor
\* the .git beneath it is entered; root, src and docs give 3 + 2 + 2 files
C14_Witness ==
    /\ ScannedDir
    /\ repo_path = FixturePath(<<"src", "build", ".git", 0>>)
    /\ file_stats.total_files = 7
    /\ DOMAIN file_stats.languages = {"JSON", "TypeScript", "JavaScript", "YAML"}

\* the number of enumerable files, and of those with a language
FileCount(tree) == Cardinality(Enumerable(tree))

ClassifiedCount(tree) ==
    Cardinality({e \in Enumerable(tree) :
                    LanguageOf(tree[e[1]].files[e[2]]) # ""})

\* the report has every section, with scores, issues and recommendations
CompleteReport(r) ==
    /\ DOMAIN r = {"scan_completed_at", "scan_duration_ms", "repository",
                   "scores", "statistics", "vulnerabilities",
                   "recommendations", "dependencies", "testing", "quality"}
    /\ DOMAIN r.scores = {"overall", "security", "performance",
                          "maintainability", "testing"}
    /\ Len(r.vulnerabilities) >= TotalIssuesMin
    /\ r.statistics.total_issues = Len(r.vulnerabilities)
    /\ Len(r.recommendations) >= 3

\* C15: every file the scanner enumerates adds 1 to total_files, and adds
\* 1 to a language count only when its extension is in the table: the
\* languages reported are those with such a file, each with its share of
\* the classified files.  For a tree whose files all have extensions
\* outside the table the languages mapping is empty, files_analyzed is the
\* number of files, and analyze returns a complete report.
C15_FilesCountedLanguagesClassified ==
    /\ ScannedDir =>
          LET tree == FsTree(repo_path)
          IN  /\ file_stats.total_files = FileCount(tree)
              /\ DOMAIN file_stats.languages =
                     {l \in Languages : Classified(tree, l) # {}}
              /\ \A l \in DOMAIN file_stats.languages :
                     file_stats.languages[l] =
                         (100 * Cardinality(Classified(tree, l)))
                             \div ClassifiedCount(tree)
    /\ (Returned /\ FsKind(repo_path) = "dir"
            /\ ClassifiedCount(FsTree(repo_path)) = 0) =>
          /\ DOMAIN ReturnedReport.statistics.languages = {}
          /\ ReturnedReport.statistics.files_analyzed =
                 FileCount(FsTree(repo_path))
          /\ CompleteReport(ReturnedReport)

\* analyze has returned for /srv/docs, which holds three .md files and no
\* other: 3 files analyzed, no language, and a complete report
C15_Witness ==
    /\ Returned
    /\ repo_path = "/srv/docs"
    /\ FileCount(FsTree(repo_path)) = 3
    /\ ClassifiedCount(FsTree(repo_path)) = 0
    /\ ReturnedReport.statistics.files_analyzed = 3
    /\ DOMAIN ReturnedReport.statistics.languages = {}
    /\ CompleteReport(ReturnedReport)

\* C16: for each language with count c among C >= 1 classified files the
\* reported percentage is floor(100 * c / C), relative to the classified
\* files and not to total_files; the percentages of the k reported
\* languages sum to at most 100 and at least 100 - (k - 1).
C16_TruncatedShareOfClassified ==
    (ScannedDir /\ ClassifiedCount(FsTree(repo_path)) >= 1) =>
        LET tree == FsTree(repo_path)
            pct  == file_stats.languages
            k    == Cardinality(DOMAIN pct)
        IN  /\ \A l \in Languages :
                   Classified(tree, l) # {} =>
                       /\ l \in DOMAIN pct
                       /\ pct[l] = (100 * Cardinality(Classified(tree, l)))
                                       \div ClassifiedCount(tree)
            /\ DictSum(pct) <= 100
            /\ DictSum(pct) >= 100 - (k - 1)

\* the fixture src/src/src with bulk sources: 108 of the 111 files are
\* classified; TypeScript is reported with 93 (90 would be its share of
\* total_files), JSON has one file and is reported with 0, and the five
\* percentages sum to 96 = 100 - (5 - 1)
C16_Witness ==
    /\ ScannedDir
    /\ repo_path = FixturePath(<<"src", "src", "src", MaxBulk>>)
    /\ file_stats.total_files > ClassifiedCount(FsTree(repo_path))
    /\ file_stats.languages["TypeScript"] #
           (100 * Cardinality(Classified(FsTree(repo_path), "TypeScript")))
               \div file_stats.total_files
    /\ Classified(FsTree(repo_path), "JSON") # {}
    /\ file_stats.languages["JSON"] = 0
    /\ DictSum(file_stats.languages) =
           100 - (Cardinality(DOMAIN file_stats.languages) - 1)

Sampled == pc = "sampled"

\* the buckets in order with their cumulative probabilities, in thousandths
Buckets ==
    << <<"critical", 40>>, <<"high", 160>>, <<"medium", 500>>, <<"low", 1000>> >>

\* C17: for every draw r of [0, 1) _get_random_severity returns the first
\* bucket, in the order critical, high, medium, low, whose cumulative
\* probability 0.04, 0.16, 0.50, 1.00 is >= r; it always returns one of the
\* four levels, and low by default only when no bucket matches.
C17_FirstBucketAtOrAboveDraw ==
    Sampled =>
        LET r       == seed.rand
            matches == {k \in 1..Len(Buckets) : Buckets[k][2] >= r}
        IN  /\ result \in {"critical", "high", "medium", "low"}
            /\ matches # {} =>
                   result = Buckets[CHOOSE k \in matches :
                                        \A j \in matches : k <= j][1]
            /\ matches = {} => result = "low"
            /\ r < 1000 => matches # {}

\* the draw 0.16 is on the boundary of the second bucket and gives high
C17_Witness ==
    /\ Sampled
    /\ seed.rand = 160
    /\ result = "high"

\* C18: only Security issues use the severity sampler: every Performance
\* issue has a severity among HIGH, MEDIUM, LOW and every Maintainability
\* issue one among MEDIUM, LOW; so every CRITICAL issue is a Security
\* issue and there are no more CRITICAL issues than Security issues.
C18_CriticalOnlyInSecurity ==
    Generated =>
        /\ \A k \in 1..Len(issues) :
              /\ issues[k].category = "Performance" =>
                     issues[k].severity \in {"HIGH", "MEDIUM", "LOW"}
              /\ issues[k].category = "Maintainability" =>
                     issues[k].severity \in {"MEDIUM", "LOW"}
              /\ issues[k].severity = "CRITICAL" =>
                     issues[k].category = "Security"
        /\ SeverityCount(issues, "CRITICAL") <= CategoryCount(issues, "Security")

\* CRITICAL issues were drawn, all of them Security issues, and the other
\* two categories show every severity they can have
C18_Witness ==
    /\ Generated
    /\ SeverityCount(issues, "CRITICAL") = MaxCritRun
    /\ {issues[k].severity :
           k \in {j \in 1..Len(issues) : issues[j].category = "Performance"}}
         = {"HIGH", "MEDIUM", "LOW"}
    /\ {issues[k].severity :
           k \in {j \in 1..Len(issues) : issues[j].category = "Maintainability"}}
         = {"MEDIUM", "LOW"}

\* the position in the sequence of the first issue of the blocks
BlockStart(seq, category) ==
    CASE category = "Security" -> 1
      [] category = "Performance" -> 1 + CategoryCount(seq, "Security")
      [] OTHER -> 1 + CategoryCount(seq, "Security")
                    + CategoryCount(seq, "Performance")

IdPrefix(category) ==
    CASE category = "Security" -> "SEC-"
      [] category = "Performance" -> "PERF-"
      [] OTHER -> "MAINT-"

\* k in decimal, padded with zeros to three digits
ThreeDigits(k) == <<k \div 100, (k \div 10) % 10, k % 10>>

\* C19: the issue sequence is three contiguous blocks in the order
\* Security, Performance, Maintainability, and the k-th issue of a block,
\* k from 1, has the id SEC-, PERF- or MAINT- followed by k padded with
\* zeros to 3 digits; within a category the ids are 1..count in sequence
\* order without gap or repeat, and all ids are pairwise distinct.
C19_BlocksAndSequentialIds ==
    Generated =>
        /\ \A j \in 1..Len(issues) :
              LET c == issues[j].category
                  k == j - BlockStart(issues, c) + 1
              IN  /\ c \in Categories
                  /\ k >= 1
                  /\ k <= CategoryCount(issues, c)
                  /\ issues[j].id.prefix = IdPrefix(c)
                  /\ issues[j].id.number = ThreeDigits(k)
        /\ Cardinality({issues[j].id : j \in 1..Len(issues)}) = Len(issues)

\* 350 issues: the 105th is SEC-105, the last of its block, the 106th is
\* PERF-001 and the last one is MAINT-158
C19_Witness ==
    /\ Generated
    /\ Len(issues) = TotalIssuesMax
    /\ issues[105].id = [prefix |-> "SEC-", number |-> <<1, 0, 5>>]
    /\ issues[106].id = [prefix |-> "PERF-", number |-> <<0, 0, 1>>]
    /\ issues[350].id = [prefix |-> "MAINT-", number |-> <<1, 5, 8>>]

\* C20: for the category counts s, p, m of the issue sequence the scores
\* are security = max(trunc(100 - min(1.5 s, 35)), 40), performance =
\* max(trunc(100 - min(2 p, 30)), 50), maintainability = max(trunc(100 -
\* min(0.5 m, 20)), 60) and overall = max(trunc(the third of the sum of
\* the three scores before they are truncated or floored), 40).  Scores
\* are compared in sixths of a point, where 1.5 s is 9 s, 2 p is 12 p and
\* 0.5 m is 3 m.
C20_ScoreFormulas ==
    Scored =>
        LET s    == CategoryCount(issues, "Security")
            p    == CategoryCount(issues, "Performance")
            m    == CategoryCount(issues, "Maintainability")
            sec6 == 600 - Min(9 * s, 210)
            per6 == 600 - Min(12 * p, 180)
            mnt6 == 600 - Min(3 * m, 120)
        IN  /\ report.scores.security = Max(sec6 \div 6, 40)
            /\ report.scores.performance = Max(per6 \div 6, 50)
            /\ report.scores.maintainability = Max(mnt6 \div 6, 60)
            /\ report.scores.overall = Max((sec6 + per6 + mnt6) \div 18, 40)

\* one Security and three Maintainability issues: 98.5, 100 and 98.5 give
\* overall 99, while the reported 98, 100 and 98 have the truncated mean 98
C20_Witness ==
    /\ Scored
    /\ CategoryCount(issues, "Security") = 1
    /\ CategoryCount(issues, "Performance") = 0
    /\ CategoryCount(issues, "Maintainability") = 3
    /\ report.scores.security = 98
    /\ report.scores.performance = 100
    /\ report.scores.maintainability = 98
    /\ report.scores.overall = 99
    /\ report.scores.overall #
           (report.scores.security + report.scores.performance
                + report.scores.maintainability) \div 3

\* the four scores _calculate_scores derives from the issues
IssueScores(seq) ==
    LET sc == CalculateScores(seq, TestingMin)
    IN  [k \in {"overall", "security", "performance", "maintainability"} |->
            sc[k]]

SameCategoryCounts(a, b) ==
    \A c \in {"Security", "Performance", "Maintainability"} :
        CategoryCount(a, c) = CategoryCount(b, c)

\* C21: the issue-derived scores returned by _calculate_scores depend on
\* the severities of the issues and not only on the category counts: a
\* sequence with CRITICAL issues is scored differently from some sequence
\* with the same number of issues in each category and no CRITICAL issue.
C21_ScoresDependOnSeverity ==
    Scored /\ SeverityCount(issues, "CRITICAL") > 0 =>
        \E other \in InputIssues :
            /\ SameCategoryCounts(issues, other)
            /\ SeverityCount(other, "CRITICAL") = 0
            /\ IssueScores(other) # IssueScores(issues)

\* the number of times a component has been called
CallCount(name) == Cardinality({k \in 1..Len(calls) : calls[k] = name})

\* every call of a precedes every call of b
CalledBefore(a, b) ==
    \A i, j \in 1..Len(calls) : calls[i] = a /\ calls[j] = b => i < j

Called(name) == CallCount(name) > 0

\* the components the report is assembled from
Components ==
    {"_analyze_files", "_generate_issues", "_calculate_scores",
     "_generate_recommendations"}

\* the order of the calls made so far, and what they were applied to
CallOrder ==
    /\ \A n \in Components : CallCount(n) <= 1
    /\ Called("_generate_issues") =>
          Called("_analyze_files")
              /\ CalledBefore("_analyze_files", "_generate_issues")
    /\ \A n \in {"_calculate_scores", "_generate_recommendations"} :
          Called(n) =>
              Called("_generate_issues") /\ CalledBefore("_generate_issues", n)
    /\ Called("_calculate_scores") =>
          report.scores = CalculateScores(issues, seed.testing)
    /\ Called("_generate_recommendations") =>
          report.recommendations = GenerateRecommendations(issues)
    /\ Returned =>
          /\ \A n \in Components : CallCount(n) = 1
          /\ result = IF output_format = "json" THEN JsonDumps(report)
                      ELSE report

\* once the Issue Generator has returned the issue sequence stays as it is,
\* and once analyze has returned nothing is called and the report stays
AfterGeneration ==
    /\ Called("_generate_issues") => issues' = issues
    /\ Returned => calls' = calls /\ report' = report /\ result' = result

\* C22: within one analyze call the Scanner runs exactly once and before
\* the Issue Generator; the Issue Generator runs exactly once; the Score
\* Calculator and the Recommendation Engine each run once, after the Issue
\* Generator and on the sequence it returned; and the serialization of the
\* assembled report is the last step: nothing is called or changed in the
\* report after it.
C22_ComponentsOnceInOrder == [] CallOrder /\ [][AfterGeneration]_vars

\* analyze has returned the JSON text of a report after the nine calls
C22_Witness ==
    /\ Returned
    /\ output_format = "json"
    /\ calls = << "analyze", "_analyze_files", "_generate_issues",
                  "_get_git_commit", "_get_git_branch", "_calculate_scores",
                  "_count_by_severity", "_generate_recommendations",
                  "_analyze_dependencies" >>
    /\ result = JsonDumps(report)
    /\ report.vulnerabilities = issues

\* a call that reads the file system or starts a process
IsIo(name) == name \in FilesystemCalls \cup SubprocessCalls

\* C23 as stated: within one analyze call no file system access and no
\* subprocess call takes place after the traversal of the Repository
\* Scanner has finished.
C23_NoIoAfterTraversal ==
    \A i, j \in 1..Len(calls) :
        calls[i] = "_analyze_files" /\ i < j => ~IsIo(calls[j])

\* C23 amended: after the traversal the file system is not read again, but
\* git is run twice as a subprocess, once by _get_git_commit and then once
\* by _get_git_branch, both after the Issue Generator and before the Score
\* Calculator; no other call after the traversal does I/O.
C23_OnlyGitLookupsAfterTraversal ==
    /\ \A i, j \in 1..Len(calls) :
          calls[i] = "_analyze_files" /\ i < j =>
              /\ calls[j] \notin FilesystemCalls
              /\ IsIo(calls[j]) => calls[j] \in SubprocessCalls
    /\ \A n \in SubprocessCalls :
          /\ CallCount(n) <= 1
          /\ CalledBefore("_analyze_files", n)
          /\ CalledBefore("_generate_issues", n)
          /\ CalledBefore(n, "_calculate_scores")
          /\ Called("_calculate_scores") => Called(n)
    /\ CalledBefore("_get_git_commit", "_get_git_branch")
    /\ Returned =>
          /\ report.repository.commit = GetGitCommit(repo_path, vcs)
          /\ report.repository.branch = GetGitBranch(repo_path, vcs)

\* analyze has returned for a repository with a commit on a branch: both
\* lookups ran after the traversal and their answers are in the report
C23_Witness ==
    /\ Returned
    /\ vcs = "on_branch"
    /\ \E i, j, k \in 1..Len(calls) :
          /\ i < j /\ j < k
          /\ calls[i] = "_analyze_files"
          /\ calls[j] = "_get_git_commit"
          /\ calls[k] = "_get_git_branch"
    /\ report.repository.commit = Strip(HeadHash)
    /\ report.repository.branch = <<"d", "e", "v", "e", "l", "o", "p">>

\* the debt hours of a report are its issue count times one k of 2..4
DebtOfOneDraw(r) ==
    LET n == r.statistics.total_issues
        h == r.quality.technical_debt_hours
    IN  /\ \E k \in DebtHoursMin..DebtHoursMax : h = n * k
        /\ h % n = 0
        /\ 2 * n <= h /\ h <= 4 * n

\* a first report has been returned
FirstReturned == result # None

\* C24: in every report quality.technical_debt_hours is
\* statistics.total_issues times one integer k of {2, 3, 4} drawn in that
\* call, so it is a multiple of total_issues between 2 and 4 times
\* total_issues.  Checked for the report a first call returned and for the
\* report a second call is about to return, whose k is the draw of that
\* call.
C24_DebtHoursOneDrawPerCall ==
    /\ FirstReturned => DebtOfOneDraw(ReturnedReport)
    /\ pc = "return" =>
          /\ DebtOfOneDraw(report)
          /\ report.quality.technical_debt_hours =
                 report.statistics.total_issues * seed.per_issue

\* two calls with the same number of issues whose debt hours differ
C24_Witness ==
    /\ SecondReturning
    /\ report.statistics.total_issues = ReturnedReport.statistics.total_issues
    /\ ReturnedReport.quality.technical_debt_hours =
           2 * ReturnedReport.statistics.total_issues
    /\ report.quality.technical_debt_hours =
           4 * report.statistics.total_issues

\* the Security template an issue was built from: titles are distinct
TemplateOf(issue) ==
    CHOOSE t \in Range(SecurityTemplates) : t.title = issue.title

SecurityIssues(seq) == {k \in 1..Len(seq) : seq[k].category = "Security"}

VectorHigh == "CVSS:3.1/AV:N/AC:L/PR:N/UI:N/S:U/C:H/I:H/A:H"
VectorMid == "CVSS:3.1/AV:N/AC:L/PR:L/UI:N/S:U/C:H/I:H/A:N"
VectorLow == "CVSS:3.1/AV:N/AC:H/PR:L/UI:R/S:U/C:L/I:L/A:N"

\* C25: for each Security issue whose template defines a CVSS score,
\* cvss.score is the template's base score when the severity is CRITICAL
\* and the base score less an offset in [1, 3] otherwise, and cvss.vector
\* is one of three fixed vectors, chosen by threshold: at least 9, at
\* least 7, otherwise.  Scores are in tenths.
C25_CvssScoreAndVector ==
    Generated =>
        \A k \in SecurityIssues(issues) :
            LET i == issues[k]
                t == TemplateOf(i)
            IN  /\ "cvss" \in DOMAIN i <=> "cvss_score" \in DOMAIN t
                /\ "cvss_score" \in DOMAIN t =>
                      /\ i.severity = "CRITICAL" =>
                             i.cvss.score = t.cvss_score
                      /\ i.severity # "CRITICAL" =>
                             /\ t.cvss_score - i.cvss.score >= 10
                             /\ t.cvss_score - i.cvss.score <= 30
                      /\ i.cvss.vector \in {VectorHigh, VectorMid, VectorLow}
                      /\ i.cvss.vector =
                             IF t.cvss_score >= 90 THEN VectorHigh
                             ELSE IF t.cvss_score >= 70 THEN VectorMid
                             ELSE VectorLow

\* a CRITICAL issue that reports the base score 9.8 of its template, and a
\* later issue of the same template and a lower severity with a reduced one
C25_Witness ==
    /\ Generated
    /\ \E k, l \in SecurityIssues(issues) :
          /\ issues[k].title = issues[l].title
          /\ issues[k].severity = "CRITICAL"
          /\ issues[k].cvss.score = 98
          /\ issues[l].severity = "LOW"
          /\ issues[l].cvss.score \in 68..88
          /\ issues[l].cvss.vector = VectorHigh

\* the detection pattern of the template an issue was built from
PatternOf(issue) ==
    LET pool == Range(SecurityTemplates) \cup Range(PerformanceTemplates)
                    \cup Range(MaintainabilityTemplates)
    IN  (CHOOSE t \in pool : t.title = issue.title).pattern

\* the snippet of the first table key that is a substring of the pattern
SnippetRule(pat) ==
    IF Contains(Chars(pat), Chars("api_key"))
    THEN "snippet: OPENROUTER_API_KEY exposed"
    ELSE IF Contains(Chars(pat), Chars("SELECT"))
    THEN "snippet: SQL built from userId"
    ELSE IF Contains(Chars(pat), Chars("innerHTML"))
    THEN "snippet: innerHTML = userInput"
    ELSE "// Vulnerable code pattern detected"

HasSnippet(issue) ==
    /\ "evidence" \in DOMAIN issue
    /\ DOMAIN issue.evidence = {"snippet"}
    /\ issue.evidence.snippet = SnippetRule(PatternOf(issue))

C27_ScoresSaturated ==
    Scored =>
        LET s  == CategoryCount(issues, "Security")
            p  == CategoryCount(issues, "Performance")
            m  == CategoryCount(issues, "Maintainability")
            sc == report.scores
        IN  /\ Len(issues) >= TotalIssuesMin /\ Len(issues) <= TotalIssuesMax
            /\ 3 * s >= 2 * 35
            /\ 2 * p >= 30
            /\ m >= 2 * 20
            /\ sc.security = 65
            /\ sc.performance = 70
            /\ sc.maintainability = 80
            /\ sc.overall = 71
            /\ sc.security # 40 /\ sc.performance # 50
            /\ sc.maintainability # 60 /\ sc.overall # 40

\* the report of the smallest population: 60 Security, 50 Performance and
\* 90 Maintainability issues, returned with the four constant scores
C27_Witness ==
    /\ pc = "print"
    /\ report.statistics.total_issues = 200
    /\ CategoryCount(report.vulnerabilities, "Security") = 60
    /\ CategoryCount(report.vulnerabilities, "Performance") = 50
    /\ CategoryCount(report.vulnerabilities, "Maintainability") = 90
    /\ report.scores.security = 65
    /\ report.scores.performance = 70
    /\ report.scores.maintainability = 80
    /\ report.scores.overall = 71

\* the keys of issues_by_severity and the severity each one tallies
TallyKeys ==
    << <<"critical", "CRITICAL">>, <<"high", "HIGH">>,
       <<"medium", "MEDIUM">>, <<"low", "LOW">> >>

\* C28: in every report statistics.issues_by_severity has exactly the keys
\* critical, high, medium and low, each the number of issues of
\* vulnerabilities with that severity, so that the four tallies sum to
\* statistics.total_issues; and recommendations has a fourth entry exactly
\* when issues_by_severity.critical is greater than 5.
C28_TalliesAndTrainingAgree ==
    Returned =>
        LET r  == ReturnedReport
            by == r.statistics.issues_by_severity
        IN  /\ DOMAIN by = {"critical", "high", "medium", "low"}
            /\ \A k \in 1..Len(TallyKeys) :
                  by[TallyKeys[k][1]] =
                      SeverityCount(r.vulnerabilities, TallyKeys[k][2])
            /\ by.critical + by.high + by.medium + by.low =
                   r.statistics.total_issues
            /\ Len(r.recommendations) \in {3, 4}
            /\ Len(r.recommendations) = 4 <=> by.critical > 5

\* a report with exactly 6 CRITICAL issues and the fourth recommendation
C28_Witness ==
    /\ Returned
    /\ ReturnedReport.statistics.issues_by_severity.critical = 6
    /\ ReturnedReport.statistics.issues_by_severity.high > 0
    /\ ReturnedReport.statistics.total_issues = 350
    /\ Len(ReturnedReport.recommendations) = 4
    /\ ReturnedReport.recommendations[4].id = "REC-004"

\* a report with exactly 5 CRITICAL issues and three recommendations
C28_WitnessAtThreshold ==
    /\ Returned
    /\ ReturnedReport.statistics.issues_by_severity.critical = 5
    /\ Len(ReturnedReport.recommendations) = 3

\* the issue sequence is as the Issue Generator returned it, and the parts
\* of the report made from it so far are those a new analyzer makes
FrameOfAnalyze ==
    /\ self = NewAnalyzer
    /\ "vulnerabilities" \in DOMAIN report =>
          /\ report.vulnerabilities = issues
          /\ report.statistics.issues_by_severity = CountBySeverity(issues)
    /\ "scores" \in DOMAIN report =>
          report.scores = CalculateScores(issues, seed.testing)
    /\ "recommendations" \in DOMAIN report =>
          report.recommendations = GenerateRecommendations(issues)
    /\ pc = "return" =>
          report.vulnerabilities = GenerateIssues(seed.total, seed.tape)

\* only the Issue Generator assigns the issue sequence, and no step
\* assigns the attributes of the analyzer
FrameOfSteps ==
    /\ self' = self
    /\ issues' # issues => pc = "generate_issues"

\* C29: the Score Calculator, the severity tally and the Recommendation
\* Engine leave the issue sequence as it is, so vulnerabilities is the
\* sequence the Issue Generator returned; analyze leaves the template
\* pools and the severity distribution of the analyzer as __init__ set
\* them, so a second call on the same instance builds its report as a
\* call on a new instance does.
C29_IssuesAndAnalyzerUnchanged == [] FrameOfAnalyze /\ [][FrameOfSteps]_vars

\* a second call on the same instance is about to return a report made
\* from other draws than the first, the analyzer being as constructed
C29_Witness ==
    /\ SecondReturning
    /\ self = NewAnalyzer
    /\ report.vulnerabilities = issues
    /\ Len(report.vulnerabilities) = 350
    /\ Len(ReturnedReport.vulnerabilities) = 200
    /\ Len(self.issue_templates.security) = 4

\* the bucket of a score in tenths
VectorBucket(score) ==
    IF score >= 90 THEN VectorHigh
    ELSE IF score >= 70 THEN VectorMid
    ELSE VectorLow

\* C30: the cvss.vector of a Security issue is selected from the base CVSS
\* score of its template and not from the cvss.score the issue reports:
\* two Security issues of the same template carry the same vector whatever
\* their severities and reported scores, and as every Security template
\* has a base score of at least 7.5 the third vector is in no report.
C30_VectorFromTemplateScore ==
    Generated =>
        /\ \A t \in Range(SecurityTemplates) : t.cvss_score >= 75
        /\ \A k \in SecurityIssues(issues) :
              /\ issues[k].cvss.vector =
                     VectorBucket(TemplateOf(issues[k]).cvss_score)
              /\ issues[k].cvss.vector # VectorLow
        /\ \A k, l \in SecurityIssues(issues) :
              issues[k].title = issues[l].title =>
                  issues[k].cvss.vector = issues[l].cvss.vector

\* an issue with the vector of scores of at least 9 and a reported score
\* below 9, whose own score would select another vector, beside a CRITICAL
\* issue of the same template; and an issue reporting less than 7 with the
\* vector of scores of at least 7
C30_Witness ==
    /\ Generated
    /\ \E k, l \in SecurityIssues(issues) :
          /\ issues[k].title = issues[l].title
          /\ issues[k].severity = "CRITICAL"
          /\ issues[l].severity # "CRITICAL"
          /\ issues[l].cvss.score < 90
          /\ issues[l].cvss.vector = VectorHigh
          /\ VectorBucket(issues[l].cvss.score) # issues[l].cvss.vector
          /\ issues[k].cvss.vector = issues[l].cvss.vector
    /\ \E k \in SecurityIssues(issues) :
          issues[k].cvss.score < 70 /\ issues[k].cvss.vector = VectorMid

=============================================================================
